---- MODULE Spec2Model ----
(***************************************************************************)
(* hardcode-replacer: the context classifier (file static-analysis cache,  *)
(* rule cascade), the palette matchers and the scan commands that use      *)
(* them.                                                                   *)
(*                                                                         *)
(* Text is modelled at token granularity: a line is a sequence of tokens,  *)
(* each token standing for a run of characters that the regular            *)
(* expressions of the source treat as a unit (an identifier, a quote, a    *)
(* hex literal, a run of white space).  Every regular expression of the    *)
(* source is an operator over such sequences.                              *)
(***************************************************************************)
EXTENDS Integers, Sequences, FiniteSets, TLC

(***************************************************************************)
(* Bounds of the model.                                                    *)
(***************************************************************************)
MaxEdits == 1
MaxInvocations == 2
MaxResults == 2
MaxPalette == 3
MaxDecls == 2
MaxRaw == 2
MaxOccurrences == 4

(***************************************************************************)
(* ----------------------------- line text ------------------------------  *)
(* Tokens:                                                                 *)
(*   "ws"        white space                                               *)
(*   "--x"       a custom property name, -- followed by [\w-]+             *)
(*   "#hex"      a hex literal, # followed by 3..8 hex digits              *)
(*   "rgbaBlack" rgba(0, 0, 0, 0.1)     "rgbaWhite" rgba(255,255,255,0.5)  *)
(*   "var(--"    the start of a var(--name) reference                      *)
(*   "q"         a quote character, single or double                       *)
(*   "bt"        a backtick                                                *)
(*   "getCssVar" one of getCssVar / getComputedStyle / getPropertyValue    *)
(*   other strings are themselves (identifiers and punctuation)            *)
(***************************************************************************)
WordTokens ==
  {"color", "content", "background", "background-color", "border-color",
   "box-shadow", "css", "theme-color", "meta", "name", "div", "style",
   "success", "bg-white", "return", "someVar", "const", "c", "2px"}

\* [\w-]+ : one identifier-like token
IsWord(tok) == tok \in WordTokens \cup {"getCssVar"}

\* the token ends with the characters "content" or "color"
EndsContentOrColor(tok) ==
  tok \in {"color", "content", "background-color", "border-color", "theme-color"}

\* (?:theme-color|msapplication|mask-icon|safari-pinned)
IsMetaKeyword(tok) == tok = "theme-color"

\* the corpus of lines an occurrence can carry (the text field of a search
\* result), without leading white space
LineBodies ==
  << \* --primary-500: #10b981;
     <<"--x", ":", "ws", "#hex", ";">>,
     \* --primary-500 : rgba(0, 0, 0, 0.1);
     <<"--x", "ws", ":", "ws", "rgbaBlack", ";">>,
     \* --fallback: getCssVar('--primary') || '#10b981';
     <<"--x", ":", "ws", "getCssVar", "(", "q", "--x", "q", ")", "ws", "||", "ws", "q", "#hex", "q", ";">>,
     \* '#10b981': 'success',
     <<"q", "#hex", "q", ":", "ws", "q", "success", "q", ",">>,
     \* css: 'border-color: #10b981',
     <<"css", ":", "ws", "q", "border-color", ":", "ws", "#hex", "q", ",">>,
     \* <meta name='theme-color' content='#10b981'>
     <<"<", "meta", "ws", "name", "=", "q", "theme-color", "q", "ws", "content", "=", "q", "#hex", "q", ">">>,
     \* box-shadow: 0 2px 4px rgba(0, 0, 0, 0.1);
     <<"box-shadow", ":", "ws", "2px", "ws", "rgbaBlack", ";">>,
     \* background: rgba(255, 255, 255, 0.5);
     <<"background", ":", "ws", "rgbaWhite", ";">>,
     \* color: #10b981;
     <<"color", ":", "ws", "#hex", ";">>,
     \* const color = getCssVar('--primary') || '#10b981';
     <<"const", "ws", "color", "ws", "=", "ws", "getCssVar", "(", "q", "--x", "q", ")", "ws", "||", "ws", "q", "#hex", "q", ";">>,
     \* return someVar || '#10b981';
     <<"return", "ws", "someVar", "ws", "||", "ws", "q", "#hex", "q", ";">>,
     \* color: var(--primary, #10b981);
     <<"color", ":", "ws", "var(--", "x", ",", "ws", "#hex", ")", ";">>,
     \* (backtick)<div style=(q)color: ${c}; background: #10b981(q)>(backtick)
     <<"bt", "<", "div", "ws", "style", "=", "q", "color", ":", "ws", "${", "c", "}", ";", "ws", "background", ":", "ws", "#hex", "q", ">", "bt">>,
     \* 'background-color: #10b981': 'bg-white',
     <<"q", "background-color", ":", "ws", "#hex", "q", ":", "ws", "q", "bg-white", "q", ",">>,
     \* 'theme-color': content='#10b981' || '#10b981'
     <<"q", "theme-color", "q", ":", "ws", "content", "=", "q", "#hex", "q", "ws", "||", "ws", "q", "#hex", "q">>,
     \* // color: #10b981
     <<"//", "ws", "color", ":", "ws", "#hex">>
  >>

\* leading white space of the indented lines, in tokens
MaxIndent == 1

\* the colour literals of one line of a file that compare --fix rewrites
MaxItems == 2

\* the lines of the source file that findPatterns searches
MaxSourceLines == 2

RECURSIVE Indent(_)
Indent(n) == IF n = 0 THEN <<>> ELSE <<"ws">> \o Indent(n - 1)

\* the corpus: text id -> text. The bodies that open with a declaration, a
\* quoted key or the css key also occur indented, with trailing white space
LineText ==
  LineBodies \o [i \in 1..(Len(LineBodies) \div 3) |->
                   Indent(MaxIndent) \o LineBodies[i] \o <<"ws">>]

LineIds == 1..Len(LineText)

\* the token at position i, or "eol" past the end
At(t, i) == IF i \in 1..Len(t) THEN t[i] ELSE "eol"

\* \s* from position i: the first position at or after i that holds no white space
RECURSIVE SkipWs(_, _)
SkipWs(t, i) == IF At(t, i) = "ws" THEN SkipWs(t, i + 1) ELSE i

RECURSIVE TrimStart(_)
TrimStart(t) == IF t # <<>> /\ Head(t) = "ws" THEN TrimStart(Tail(t)) ELSE t

RECURSIVE TrimEnd(_)
TrimEnd(t) ==
  IF t # <<>> /\ t[Len(t)] = "ws" THEN TrimEnd(SubSeq(t, 1, Len(t) - 1)) ELSE t

\* String.prototype.trim
Trim(t) == TrimEnd(TrimStart(t))

\* /^\s*--[\w-]+\s*:/
CssDefReNoSpace(t) ==
  LET i == SkipWs(t, 1)
  IN  At(t, i) = "--x" /\ At(t, i + 1) = ":"

CssDefRe(t) ==
  LET i == SkipWs(t, 1)
      j == SkipWs(t, i + 1)
  IN  At(t, i) = "--x" /\ At(t, j) = ":"

\* /(?:content|color)\s*[:=]\s*["']#[0-9a-fA-F]/
MetaValueRe(t) ==
  \E i \in 1..Len(t) :
    LET j == SkipWs(t, i + 1)
        k == SkipWs(t, j + 1)
    IN  /\ EndsContentOrColor(t[i])
        /\ At(t, j) \in {":", "="}
        /\ At(t, k) = "q"
        /\ At(t, k + 1) = "#hex"

\* /(?:theme-color|msapplication|mask-icon|safari-pinned)/
MetaKeywordRe(t) == \E i \in 1..Len(t) : IsMetaKeyword(t[i])

\* /`[\s\S]*<[\s\S]*>/
TemplateTagRe(t) ==
  \E i, j, k \in 1..Len(t) :
    i < j /\ j < k /\ t[i] = "bt" /\ t[j] = "<" /\ t[k] = ">"

\* /\$\{/
InterpRe(t) == \E i \in 1..Len(t) : t[i] = "${"

\* /^\s*['"][\w-]+\s*:.*#[0-9a-fA-F]/
QuotedPropKeyRe(t) ==
  LET i == SkipWs(t, 1)
      j == SkipWs(t, i + 2)
  IN  /\ At(t, i) = "q"
      /\ IsWord(At(t, i + 1))
      /\ At(t, j) = ":"
      /\ \E k \in (j + 1)..Len(t) : t[k] = "#hex"

\* trimmed.split(':').slice(-1)[0] : what follows the last colon
RECURSIVE LastColonSegment(_)
LastColonSegment(t) ==
  IF \E i \in 1..Len(t) : t[i] = ":"
    THEN LastColonSegment(Tail(t))
    ELSE t

\* /['"].*['"]/
QuotedPairRe(t) == \E i, j \in 1..Len(t) : i < j /\ t[i] = "q" /\ t[j] = "q"

\* /^\s*['"]#[0-9a-fA-F]{3,8}['"]/
HexKeyRe(t) ==
  LET i == SkipWs(t, 1)
  IN  At(t, i) = "q" /\ At(t, i + 1) = "#hex" /\ At(t, i + 2) = "q"

\* /^\s*css\s*:\s*['"]/
CssKeyRe(t) ==
  LET i == SkipWs(t, 1)
      j == SkipWs(t, i + 1)
      k == SkipWs(t, j + 1)
  IN  At(t, i) = "css" /\ At(t, j) = ":" /\ At(t, k) = "q"

\* /getCssVar|getComputedStyle|getPropertyValue/
CssVarCallRe(t) == \E i \in 1..Len(t) : t[i] = "getCssVar"

\* /\|\|\s*['"]#/
OrFallbackRe(t) ==
  \E i \in 1..Len(t) :
    LET j == SkipWs(t, i + 1)
    IN  t[i] = "||" /\ At(t, j) = "q" /\ At(t, j + 1) = "#hex"

\* trimmed.includes('var(--')
IncludesVarRef(t) == \E i \in 1..Len(t) : t[i] = "var(--"


(***************************************************************************)
(* ----------------------------- file paths -----------------------------  *)
(* A path is its directory segments and the dot-separated parts of its     *)
(* file name: src/button.theme.ts is                                       *)
(*   [dirs |-> <<"src">>, name |-> <<"button", "theme", "ts">>].           *)
(* Paths are relative, as the search reports them.                         *)
(***************************************************************************)
Path(dirs, name) == [dirs |-> dirs, name |-> name]

\* the files of the project: file id -> path
Paths ==
  << Path(<<"src">>, <<"component", "tsx">>),
     Path(<<"src">>, <<"styles", "css">>),
     Path(<<"src">>, <<"Chart", "vue">>),
     Path(<<"src">>, <<"colors", "ts">>),
     Path(<<"src">>, <<"colorEngine", "ts">>),
     Path(<<"src", "design-tokens">>, <<"base", "css">>),
     Path(<<"src">>, <<"Legacy", "TSX">>),
     Path(<<"src">>, <<"utils", "js">>) >>

FileIds == 1..Len(Paths)

\* the second file of every run: src/utils.js
OtherFile == Len(Paths)

\* String.prototype.toLowerCase on a part of a name: the parts written with
\* capitals here, every other part is lower case already
ToLowerCase(part) ==
  CASE part = "TSX" -> "tsx"
    [] part = "Color" -> "color"
    [] part = "Shadow" -> "shadow"
    [] part = "Decoration" -> "decoration"
    [] part = "Top" -> "top"
    [] part = "Right" -> "right"
    [] part = "Bottom" -> "bottom"
    [] part = "Left" -> "left"
    [] OTHER -> part

\* path.extname(filePath).toLowerCase(), without the dot ("" when there is none)
ExtName(p) ==
  IF Len(p.name) >= 2 THEN ToLowerCase(p.name[Len(p.name)]) ELSE ""

\* \.[jt]sx?$ : the (case-sensitive) tail of the definition and mapping patterns
JtsxTail(p) ==
  Len(p.name) >= 2 /\ p.name[Len(p.name)] \in {"js", "jsx", "ts", "tsx"}

\* the part of the file name before its extension
Stem(p) == IF Len(p.name) >= 2 THEN p.name[Len(p.name) - 1] ELSE ""

\* DEFINITION_FILE_PATTERNS, any of them
MatchesDefinitionPattern(p) ==
  \/ JtsxTail(p) /\ Len(p.name) >= 3 /\ Stem(p) = "theme"
  \/ JtsxTail(p) /\ Len(p.name) = 2 /\ Len(p.dirs) >= 1 /\ Stem(p) = "theme"
  \/ JtsxTail(p) /\ \E i \in 2..Len(p.dirs) : p.dirs[i] \in {"theme", "themes"}
  \/ JtsxTail(p) /\ Len(p.name) = 2 /\ Len(p.dirs) >= 1
       /\ Stem(p) \in {"token", "tokens", "palette", "color", "colors"}
  \/ \E i \in 1..Len(p.dirs) : p.dirs[i] = "design-tokens"
  \/ \E i \in 1..Len(p.name) : p.name[i] = "design-tokens"
  \/ \E i \in 1..(Len(p.name) - 1) : p.name[i] = "tailwind" /\ p.name[i + 1] = "config"

\* the stem ends with Engine, Mapper, Converter, Mapping (either case of the
\* first letter) or MCPService
EndsWithMappingWord(stem) ==
  stem \in {"Engine", "engine", "colorEngine", "Mapper", "mapper", "colorMapper",
            "Converter", "converter", "Mapping", "mapping", "MCPService"}

\* MAPPING_FILE_PATTERNS, any of them
MatchesMappingPattern(p) == JtsxTail(p) /\ EndsWithMappingWord(Stem(p))

(***************************************************************************)
(* ---------------------------- file content ----------------------------  *)
(* A content is a sequence of runs of lines, [tok, n]: n lines of kind tok *)
(*   "plain"        code that matches none of the content patterns         *)
(*   "importCanvas" import ... from 'three' (a CANVAS_IMPORTS library)     *)
(*   "importOg"     import satori from 'satori'                            *)
(*   "createTheme"  a createTheme( / createMuiTheme( / extendTheme( call   *)
(*   "getCssVar"    a line that holds getCssVar or getComputedStyle        *)
(* Missing is a file that cannot be read.                                  *)
(***************************************************************************)
Missing == <<[tok |-> "unreadable", n |-> 0]>>

Run(tok, n) == [tok |-> tok, n |-> n]

\* the contents a file can have on disk: content id -> content
Contents ==
  << <<Run("plain", 3)>>,
     <<Run("importCanvas", 1), Run("plain", 5)>>,
     <<Run("plain", 100), Run("importCanvas", 1)>>,
     <<Run("importOg", 1), Run("plain", 2)>>,
     <<Run("plain", 120), Run("createTheme", 1)>>,
     <<Run("plain", 150), Run("getCssVar", 1)>>,
     <<Run("createTheme", 1), Run("getCssVar", 1)>>,
     Missing >>

ContentIds == 1..Len(Contents)

\* content.split('\n').slice(0, 100)
HeadLines == 100

\* the line number at which run i of the content starts
RECURSIVE RunStart(_, _)
RunStart(content, i) ==
  IF i = 1 THEN 1 ELSE RunStart(content, i - 1) + content[i - 1].n

\* the kinds of line among the first HeadLines lines
HeadKinds(content) ==
  { content[i].tok : i \in { k \in 1..Len(content) : RunStart(content, k) <= HeadLines } }

\* the kinds of line anywhere in the file
AllKinds(content) == { content[i].tok : i \in 1..Len(content) }

(***************************************************************************)
(* --------------------- file static-analysis record --------------------  *)
(***************************************************************************)
DefaultInfo ==
  [isCanvasConsumer |-> FALSE, isDefinitionFile |-> FALSE, isMappingFile |-> FALSE,
   isThemeBuilder |-> FALSE, hasCssVarUsage |-> FALSE, isCssFile |-> FALSE]

\* the extensions whose content getFileInfo reads
ReadExtensions == {"js", "jsx", "ts", "tsx", "mjs", "cjs"}

StylesheetExtensions == {"css", "scss", "sass", "less"}

\* what the try block of getFileInfo adds to the record: nothing when
\* readFileSync throws
ContentFlagsHeadOnly(info, content) ==
  IF content = Missing THEN info
  ELSE [info EXCEPT
          !.isCanvasConsumer = "importCanvas" \in HeadKinds(content)
                                 \/ "importOg" \in HeadKinds(content),
          !.isThemeBuilder = "createTheme" \in HeadKinds(content),
          !.hasCssVarUsage = "getCssVar" \in HeadKinds(content)]

ContentFlagsResetOnError(info, content) ==
  IF content = Missing THEN DefaultInfo
  ELSE [info EXCEPT
          !.isCanvasConsumer = "importCanvas" \in HeadKinds(content)
                                 \/ "importOg" \in HeadKinds(content),
          !.isThemeBuilder = "createTheme" \in AllKinds(content),
          !.hasCssVarUsage = "getCssVar" \in AllKinds(content)]

ContentFlags(info, content) ==
  IF content = Missing THEN info
  ELSE [info EXCEPT
          !.isCanvasConsumer = "importCanvas" \in HeadKinds(content)
                                 \/ "importOg" \in HeadKinds(content),
          !.isThemeBuilder = "createTheme" \in AllKinds(content),
          !.hasCssVarUsage = "getCssVar" \in AllKinds(content)]

\* getFileInfo on a cache miss: the record computed from the path and the
\* content on disk
AnalyzeFile(p, content) ==
  LET pathInfo == [DefaultInfo EXCEPT
                     !.isCssFile = ExtName(p) \in StylesheetExtensions,
                     !.isDefinitionFile = MatchesDefinitionPattern(p),
                     !.isMappingFile = MatchesMappingPattern(p)]
  IN  IF ExtName(p) \in ReadExtensions
        THEN ContentFlags(pathInfo, content)
        ELSE pathInfo


(***************************************************************************)
(* ------------------------- context classifier -------------------------  *)
(***************************************************************************)
Tags ==
  {"actionable", "css-definition", "theme-definition", "canvas", "mapping",
   "generated", "meta"}

\* the line-level heuristics with the || fallback rule tried first
LineTagFallbackFirst(trimmed) ==
  IF OrFallbackRe(trimmed) THEN "canvas"
  ELSE IF MetaValueRe(trimmed) /\ MetaKeywordRe(trimmed) THEN "meta"
  ELSE IF TemplateTagRe(trimmed) /\ InterpRe(trimmed) THEN "generated"
  ELSE IF QuotedPropKeyRe(trimmed) /\ QuotedPairRe(LastColonSegment(trimmed))
    THEN "mapping"
  ELSE IF HexKeyRe(trimmed) THEN "mapping"
  ELSE IF CssKeyRe(trimmed) THEN "mapping"
  ELSE IF CssVarCallRe(trimmed) THEN "canvas"
  ELSE "actionable"

\* classifyContext, step 3: the line-level heuristics, on the trimmed text
LineTag(trimmed) ==
  IF MetaValueRe(trimmed) /\ MetaKeywordRe(trimmed) THEN "meta"
  ELSE IF TemplateTagRe(trimmed) /\ InterpRe(trimmed) THEN "generated"
  ELSE IF QuotedPropKeyRe(trimmed) /\ QuotedPairRe(LastColonSegment(trimmed))
    THEN "mapping"
  ELSE IF HexKeyRe(trimmed) THEN "mapping"
  ELSE IF CssKeyRe(trimmed) THEN "mapping"
  ELSE IF CssVarCallRe(trimmed) THEN "canvas"
  ELSE IF OrFallbackRe(trimmed) THEN "canvas"
  ELSE "actionable"

\* the regular expressions of classifyContext, tabulated over the corpus
IsCssDef == [id \in LineIds |-> CssDefRe(Trim(LineText[id]))] @@ <<>>

HasVarRef == [id \in LineIds |-> IncludesVarRef(Trim(LineText[id]))] @@ <<>>

LineTagOf == [id \in LineIds |-> LineTag(Trim(LineText[id]))] @@ <<>>

\* classifyContext, step 2: the file-level rules, then the line-level ones,
\* for the line with text id
FileTagSwapped(info, id) ==
  IF info.isCanvasConsumer THEN "canvas"
  ELSE IF info.isThemeBuilder THEN "theme-definition"
  ELSE IF info.hasCssVarUsage /\ ~info.isCssFile THEN "canvas"
  ELSE IF info.isDefinitionFile
    THEN (IF HasVarRef[id] THEN "actionable" ELSE "theme-definition")
  ELSE IF info.isMappingFile THEN "mapping"
  ELSE LineTagOf[id]

FileTag(info, id) ==
  IF info.isCanvasConsumer THEN "canvas"
  ELSE IF info.hasCssVarUsage /\ ~info.isCssFile THEN "canvas"
  ELSE IF info.isThemeBuilder THEN "theme-definition"
  ELSE IF info.isDefinitionFile
    THEN (IF HasVarRef[id] THEN "actionable" ELSE "theme-definition")
  ELSE IF info.isMappingFile THEN "mapping"
  ELSE LineTagOf[id]

\* classifyContext returns before getFileInfo for a declaration line
NeedsFileInfo(id) == ~IsCssDef[id]

\* the tag classifyContext returns, given the record getFileInfo returns
ContextTag(id, info) ==
  IF IsCssDef[id] THEN "css-definition" ELSE FileTag(info, id)

\* contextLabel
contextLabel(ctx) ==
  CASE ctx = "actionable" -> "ACTIONABLE"
    [] ctx = "css-definition" -> "CSS VAR DEFINITION"
    [] ctx = "theme-definition" -> "THEME DEFINITION"
    [] ctx = "canvas" -> "CANVAS/WEBGL"
    [] ctx = "mapping" -> "MAPPING/LOOKUP"
    [] ctx = "generated" -> "GENERATED CODE"
    [] ctx = "meta" -> "META/MANIFEST"
    [] OTHER -> ctx

\* isActionable
isActionable(ctx) == ctx = "actionable"


\* the colour literals of a line: what the search can report as the match
ColorTokens == {"#hex", "rgbaBlack", "rgbaWhite"}

MatchesIn(text) == { text[i] : i \in 1..Len(text) } \cap ColorTokens

MatchTable == [id \in LineIds |-> MatchesIn(LineText[id])] @@ <<>>

(***************************************************************************)
(* ------------------------- colours and palette -------------------------  *)
(* A colour string is what parseColor makes of it:                          *)
(*   [kind |-> "rgb", at |-> n]  an rgb triple; colours lie on a line, n is *)
(*                               the position in tenths of a Delta-E unit   *)
(*   [kind |-> "nan", at |-> 0]  rgb(., 0, 0): the rgb pattern matches and  *)
(*                               parseFloat('.') is NaN                     *)
(*   [kind |-> "bad", at |-> 0]  no colour at all: parseColor returns null  *)
(***************************************************************************)
Colour(kind, at) == [kind |-> kind, at |-> at]

\* the values a palette variable can have
PaletteValues ==
  { Colour("rgb", n) : n \in {6, 10, 15} } \cup {Colour("nan", 0), Colour("bad", 0)}

\* the colours a matcher can be asked about
InputColours ==
  { Colour("rgb", n) : n \in {0, 8} } \cup {Colour("nan", 0), Colour("bad", 0)}

\* null
Null == [kind |-> "null", at |-> 0]

\* parseColor: null, or the rgb triple (whose components can be NaN)
parseColor(str) == IF str.kind = "bad" THEN Null ELSE str

\* the numbers that are no positions: NaN and Infinity
NaN == -1000000

Infinity == 1000000

\* the comparisons of IEEE numbers: false when either side is NaN
Less(a, b) == a # NaN /\ b # NaN /\ a < b

LessEq(a, b) == a # NaN /\ b # NaN /\ a <= b

\* Math.abs(a - b)
AbsDiff(a, b) == IF a = NaN \/ b = NaN THEN NaN ELSE IF a < b THEN b - a ELSE a - b

\* colorDistance of two parsed colours, in tenths
colorDistance(rgb1, rgb2) ==
  IF rgb1 = Null \/ rgb2 = Null THEN Infinity
  ELSE IF rgb1.kind = "nan" \/ rgb2.kind = "nan" THEN NaN
  ELSE AbsDiff(rgb1.at, rgb2.at)

\* no match: findNearestColor returns null
NoMatch == [idx |-> 0, distance |-> Infinity]

\* findNearestColor: the test that makes an entry the new nearest
IsNearerOrTied(dist, minDistance) == LessEq(dist, minDistance)

IsNearer(dist, minDistance) == Less(dist, minDistance)

\* the loop of findNearestColor from entry i on; nearest.idx is the position
\* of the nearest entry so far in Object.entries(palette)
RECURSIVE NearestLoop(_, _, _, _)
NearestLoop(rgb, pal, i, nearest) ==
  IF i > Len(pal) THEN nearest
  ELSE LET paletteRgb == parseColor(pal[i].value)
           dist == colorDistance(rgb, paletteRgb)
       IN  IF paletteRgb # Null /\ IsNearer(dist, nearest.distance)
             THEN NearestLoop(rgb, pal, i + 1, [idx |-> i, distance |-> dist])
             ELSE NearestLoop(rgb, pal, i + 1, nearest)

findNearestColor(colorStr, pal) ==
  LET rgb == parseColor(colorStr)
  IN  IF rgb = Null THEN NoMatch ELSE NearestLoop(rgb, pal, 1, NoMatch)

(***************************************************************************)
(* A CSS property and a variable name are sequences of parts:              *)
(* border-color is <<"border", "-", "color">>, borderColor is              *)
(* <<"border", "Color">>, --bg-success is <<"bg", "success">>.             *)
(***************************************************************************)
PROPERTY_CATEGORIES ==
  << [category |-> "background",
      props |-> << <<"background">>, <<"background", "Color">>, <<"bg">> >>],
     [category |-> "text",
      props |-> << <<"color">>, <<"text", "Decoration", "Color">>, <<"caret", "Color">> >>],
     [category |-> "border",
      props |-> << <<"border", "Color">>, <<"border", "Top", "Color">>,
                   <<"border", "Right", "Color">>, <<"border", "Bottom", "Color">>,
                   <<"border", "Left", "Color">>, <<"border", "-", "color">>,
                   <<"border", "-", "top", "-", "color">>,
                   <<"border", "-", "right", "-", "color">>,
                   <<"border", "-", "bottom", "-", "color">>,
                   <<"border", "-", "left", "-", "color">>,
                   <<"outline", "Color">>, <<"outline", "-", "color">> >>],
     [category |-> "shadow",
      props |-> << <<"box", "Shadow">>, <<"text", "Shadow">>,
                   <<"box", "-", "shadow">>, <<"text", "-", "shadow">> >>],
     [category |-> "fill", props |-> << <<"fill">>, <<"stroke">> >>] >>

\* VAR_NAME_CATEGORIES: the words each pattern looks for, case-insensitively
VAR_NAME_CATEGORIES ==
  [background |-> {"bg", "background"},
   text |-> {"text", "font", "foreground"},
   border |-> {"border", "outline", "ring", "divide"},
   shadow |-> {"shadow"},
   fill |-> {"fill", "stroke"}]

\* toLowerCase of a property
LowerProp(prop) == [i \in 1..Len(prop) |-> ToLowerCase(prop[i])]

\* String.prototype.includes
Includes(str, sub) ==
  \E i \in 0..(Len(str) - Len(sub)) : SubSeq(str, i + 1, i + Len(sub)) = sub

\* prop === p.toLowerCase() || prop.includes(p.toLowerCase())
PropMatches(prop, p) == prop = LowerProp(p) \/ Includes(prop, LowerProp(p))

\* the loops of getPropertyCategory from category c on
RECURSIVE CategoryFrom(_, _)
CategoryFrom(prop, c) ==
  IF c > Len(PROPERTY_CATEGORIES) THEN "null"
  ELSE IF \E k \in 1..Len(PROPERTY_CATEGORIES[c].props) :
            PropMatches(prop, PROPERTY_CATEGORIES[c].props[k])
    THEN PROPERTY_CATEGORIES[c].category
  ELSE CategoryFrom(prop, c + 1)

getPropertyCategory(cssProp) == CategoryFrom(LowerProp(cssProp), 1)

\* no property: extractCssProperty returned null
NoProp == <<>>

\* the semantic score of a variable name for a property category
SemanticScore(propCategory, name) ==
  IF propCategory # "null"
       /\ \E i \in 1..Len(name) : ToLowerCase(name[i]) \in VAR_NAME_CATEGORIES[propCategory]
    THEN 1 ELSE 0

\* the tie window of the semantic matcher: 0.5, in tenths
TieWindow == 5

\* findNearestColorSemantic: isBetter
isBetter(dist, minDistance, semanticScore, bestSemanticScore) ==
  \/ Less(dist, minDistance - TieWindow)
  \/ /\ LessEq(AbsDiff(dist, minDistance), TieWindow)
     /\ semanticScore > bestSemanticScore

\* the loop of findNearestColorSemantic from entry i on
RECURSIVE SemanticLoop(_, _, _, _, _)
SemanticLoop(rgb, pal, propCategory, i, best) ==
  IF i > Len(pal) THEN best
  ELSE LET paletteRgb == parseColor(pal[i].value)
           dist == colorDistance(rgb, paletteRgb)
           semanticScore == SemanticScore(propCategory, pal[i].name)
       IN  IF paletteRgb # Null
                /\ isBetter(dist, best.distance, semanticScore, best.score)
             THEN SemanticLoop(rgb, pal, propCategory, i + 1,
                               [idx |-> i, distance |-> dist, score |-> semanticScore])
             ELSE SemanticLoop(rgb, pal, propCategory, i + 1, best)

\* the names of the palette variables
VarNames ==
  { <<"bg", "success">>, <<"border", "accent">>, <<"text", "muted">>, <<"accent">> }

\* the properties extractCssProperty finds on the lines of the project
CssProps ==
  { <<"border", "-", "color">>, <<"border", "Color">>, <<"background", "-", "color">> }

\* getPropertyCategory, tabulated over the properties
CategoryOf == [p \in CssProps |-> getPropertyCategory(p)] @@ <<>>

findNearestColorSemantic(colorStr, pal, cssProp) ==
  LET rgb == parseColor(colorStr)
      propCategory == IF cssProp # NoProp THEN CategoryOf[cssProp] ELSE "null"
      best == SemanticLoop(rgb, pal, propCategory, 1,
                           [idx |-> 0, distance |-> Infinity, score |-> 0])
  IN  IF rgb = Null THEN NoMatch ELSE [idx |-> best.idx, distance |-> best.distance]

(***************************************************************************)
(* -------------------------------- state -------------------------------  *)
(***************************************************************************)
VARIABLES
  fs,           \* the files on disk: file id -> content id
  fileCache,    \* the process-wide Map of getFileInfo: file id -> [has, info]
  lastCall,     \* the classifyContext call that has just returned
  stale,        \* file id -> the file was rewritten while the cache held its record
  cleared,      \* clearCache has dropped a record
  edits,        \* number of file rewrites so far
  pc,           \* the command that is running, "idle" between commands
  inv,          \* number of command invocations started so far
  remaining,    \* search results the running command has still to process
  recInv,       \* file id -> the invocation during which its record was computed
  exitCode,     \* process.exitCode
  palette,      \* Object.entries of the palette: a sequence of [name, value]
  found,        \* the matcher call that has just returned
  cmp,          \* the run of compareVars, from its options to its output
  pat,          \* the run of findPatterns
  col,          \* the colour literal handed to the colour utilities, and the results
  opt,          \* the call of mergeOptions: command line, config file, result
  fixes,        \* the call of applyFixes: results, file texts, fix count
  stat,         \* the occurrence compareVars compares, its match and its status
  srch          \* the call of search: backend, files, results

vars ==
  <<fs, fileCache, lastCall, stale, cleared, edits,
    pc, inv, remaining, recInv, exitCode, palette, found, cmp, pat, col,
    opt, fixes, stat, srch>>

cmdVars == <<pc, inv, remaining, recInv, exitCode>>

matchVars == <<palette, found>>

extVars == <<cmp, pat, col>>

moreVars == <<opt, fixes, stat, srch>>

\* the second file of every run holds a getCssVar call and is not rewritten
OtherContent ==
  CHOOSE c \in ContentIds : Contents[c] = <<Run("plain", 150), Run("getCssVar", 1)>>

\* src/component.tsx
ComponentFile ==
  CHOOSE f \in FileIds : Paths[f] = Path(<<"src">>, <<"component", "tsx">>)

\* AnalyzeFile, tabulated over the files and the contents
InfoTable ==
  [k \in FileIds \X ContentIds |-> AnalyzeFile(Paths[k[1]], Contents[k[2]])] @@ <<>>

NoEntry == [has |-> FALSE, info |-> DefaultInfo]

NoCall ==
  [file |-> OtherFile, textId |-> 0, match |-> "", tag |-> "none",
   used |-> FALSE, hit |-> FALSE, info |-> DefaultInfo, stale |-> FALSE,
   inv |-> 0, recInv |-> 0]

NoFound ==
  [fn |-> "none", colour |-> Colour("bad", 0), prop |-> NoProp,
   idx |-> 0, distance |-> Infinity]

\* compareVars has not run
NoCompare ==
  [pc |-> "start", varsGiven |-> FALSE, varsExists |-> FALSE, varsValid |-> FALSE,
   exit |-> 0, effects |-> {}, results |-> <<>>,
   diffFile |-> [kind |-> "missing", items |-> <<>>], diffed |-> FALSE,
   final |-> <<>>]

\* findPatterns has not run
NoPatterns ==
  [pc |-> "start", source |-> <<>>, hits |-> <<>>, allResults |-> <<>>,
   minClasses |-> 0, minCount |-> 0,
   patternMap |-> <<>>, patterns |-> <<>>, subPatterns |-> <<>>]

\* no colour utility has been called
NoLiteral ==
  [pc |-> "start", literal |-> [syntax |-> "named", name |-> ""],
   rgb |-> Null, hex |-> [syntax |-> "hex", digits |-> <<>>], again |-> Null,
   alpha |-> [null |-> TRUE, value |-> 0]]

\* mergeOptions has not been called
NoMerge == [pc |-> "start", cli |-> <<>>, config |-> <<>>, merged |-> <<>>]

\* applyFixes has not been called
NoFix ==
  [pc |-> "start", source |-> <<>>, files |-> <<>>, writable |-> <<>>,
   results |-> <<>>, queue |-> <<>>, fixCount |-> 0, written |-> {}]

\* no occurrence has been compared
NoStatus ==
  [pc |-> "start", palette |-> <<>>, supplied |-> FALSE,
   options |-> [threshold |-> <<>>], threshold |-> 0,
   value |-> Null, cssProp |-> NoProp, nearest |-> NoMatch,
   plain |-> NoMatch, status |-> "none"]

\* search has not been called
NoSearch ==
  [pc |-> "start", hasRipgrep |-> FALSE, source |-> <<>>, rawResults |-> <<>>,
   reported |-> <<>>]

\* a fresh process whose project holds file f with content c, and src/utils.js
InitWith(f, c) ==
  /\ fs = (f :> c) @@ (OtherFile :> OtherContent)
  /\ fileCache = [g \in DOMAIN fs |-> NoEntry]
  /\ lastCall = NoCall
  /\ stale = [g \in DOMAIN fs |-> FALSE]
  /\ cleared = FALSE
  /\ edits = 0
  /\ pc = "idle"
  /\ inv = 0
  /\ remaining = 0
  /\ recInv = [g \in DOMAIN fs |-> 0]
  /\ exitCode = 0
  /\ palette = <<>>
  /\ found = NoFound
  /\ cmp = NoCompare
  /\ pat = NoPatterns
  /\ col = NoLiteral
  /\ opt = NoMerge
  /\ fixes = NoFix
  /\ stat = NoStatus
  /\ srch = NoSearch

Init == \E f \in FileIds \ {OtherFile}, c \in ContentIds : InitWith(f, c)

(***************************************************************************)
(* getFileInfo: the cached record on a hit, the analysis of the file on a  *)
(* miss, which is then stored under the path.                              *)
(***************************************************************************)
\* getFileInfo without the test of the cache: the file is analysed again
getFileInfoAgain(f) == InfoTable[<<f, fs[f]>>]

getFileInfo(f) ==
  IF fileCache[f].has THEN fileCache[f].info ELSE InfoTable[<<f, fs[f]>>]

cacheAfterGetAnyKey(f) ==
  [g \in DOMAIN fileCache |-> [has |-> TRUE, info |-> getFileInfo(f)]]

\* fileCache.set(filePath, info)
cacheAfterGet(f) ==
  [fileCache EXCEPT ![f] = [has |-> TRUE, info |-> getFileInfo(f)]]

clearCacheKeeps == fileCache

\* clearCache: fileCache.clear()
clearCache == [f \in DOMAIN fileCache |-> NoEntry]

\* classifyContext(result) for result = {file: f, text: LineText[id], match}
Classify(f, id, match) ==
  LET need == NeedsFileInfo(id)
      info == IF need THEN getFileInfo(f) ELSE DefaultInfo
      miss == need /\ ~fileCache[f].has
  IN  /\ fileCache' = IF need THEN cacheAfterGet(f) ELSE fileCache
      /\ recInv' = IF miss THEN [recInv EXCEPT ![f] = inv] ELSE recInv
      /\ lastCall' =
           [file |-> f, textId |-> id, match |-> match,
            tag |-> ContextTag(id, info),
            used |-> need,
            hit |-> need /\ fileCache[f].has,
            info |-> info,
            stale |-> need /\ stale[f],
            inv |-> inv,
            recInv |-> IF miss THEN inv ELSE recInv[f]]
      /\ UNCHANGED <<fs, stale, cleared, edits>>

\* a direct call of the exported classifyContext
ClassifyContext ==
  /\ pc = "idle"
  /\ \E f \in DOMAIN fs, id \in LineIds :
       \E match \in MatchTable[id] : Classify(f, id, match)
  /\ UNCHANGED <<pc, inv, remaining, exitCode>>
  /\ UNCHANGED matchVars
  /\ UNCHANGED extVars
  /\ UNCHANGED moreVars

\* a direct call of the exported clearCache
ClearCache ==
  /\ pc = "idle"
  /\ fileCache' = clearCache
  /\ stale' = [f \in DOMAIN fs |-> FALSE]
  /\ cleared' = (cleared \/ \E f \in DOMAIN fs : fileCache[f].has)
  /\ lastCall' = NoCall
  /\ UNCHANGED <<fs, edits>>
  /\ UNCHANGED cmdVars
  /\ UNCHANGED matchVars
  /\ UNCHANGED extVars
  /\ UNCHANGED moreVars

\* the environment (an editor, or a --fix run) rewrites a file
EditFile ==
  /\ edits < MaxEdits
  /\ \E f \in DOMAIN fs \ {OtherFile} :
       \E c \in ContentIds \ {fs[f]} :
         /\ fs' = [fs EXCEPT ![f] = c]
         /\ stale' = [stale EXCEPT ![f] = fileCache[f].has]
  /\ edits' = edits + 1
  /\ lastCall' = NoCall
  /\ UNCHANGED <<fileCache, cleared>>
  /\ UNCHANGED cmdVars
  /\ UNCHANGED matchVars
  /\ UNCHANGED extVars
  /\ UNCHANGED moreVars

Next == ClassifyContext \/ ClearCache \/ EditFile

Spec == Init /\ [][Next]_vars

(***************************************************************************)
(* ------------------------------ commands ------------------------------  *)
(* cli.js runs one command per invocation; a test or a host process runs   *)
(* several in a row against the same module-level fileCache. A command is  *)
(* synchronous: it runs to its end before the next one starts.             *)
(***************************************************************************)
\* the line is skipped as a comment: trimStart().startsWith('//')
StartsWithComment(id) == At(TrimStart(LineText[id]), 1) = "//"

IsComment == [id \in LineIds |-> StartsWithComment(id)] @@ <<>>

\* the start of a command that scans: clearCache(), then search()
StartScan(cmd) ==
  /\ pc = "idle"
  /\ inv < MaxInvocations
  /\ inv' = inv + 1
  /\ pc' = cmd
  /\ fileCache' = clearCache
  /\ stale' = [f \in DOMAIN fs |-> FALSE]
  /\ cleared' = (cleared \/ \E f \in DOMAIN fs : fileCache[f].has)
  /\ lastCall' = NoCall
  /\ \E n \in 0..MaxResults : remaining' = n
  /\ UNCHANGED <<fs, edits, recInv, exitCode>>
  /\ UNCHANGED matchVars
  /\ UNCHANGED extVars
  /\ UNCHANGED moreVars

\* one turn of the loop over rawResults: the result is skipped or classified
ScanResult(cmd, canSkipBlock) ==
  /\ pc = cmd
  /\ remaining > 0
  /\ remaining' = remaining - 1
  /\ \E f \in DOMAIN fs, id \in LineIds :
       \E match \in MatchTable[id], inBlockComment \in {FALSE, canSkipBlock} :
         IF IsComment[id] \/ inBlockComment
           THEN UNCHANGED <<fs, fileCache, lastCall, stale, cleared, edits, recInv>>
           ELSE Classify(f, id, match)
  /\ UNCHANGED <<pc, inv, exitCode>>
  /\ UNCHANGED matchVars
  /\ UNCHANGED extVars
  /\ UNCHANGED moreVars

\* the end of the loop: dedupe, output, return
EndScan(cmd) ==
  /\ pc = cmd
  /\ remaining = 0
  /\ pc' = "idle"
  /\ UNCHANGED <<fs, fileCache, lastCall, stale, cleared, edits>>
  /\ UNCHANGED <<inv, remaining, recInv, exitCode>>
  /\ UNCHANGED matchVars
  /\ UNCHANGED extVars
  /\ UNCHANGED moreVars

\* a command that returns without touching the classifier
RunWithoutClassifier(code) ==
  /\ pc = "idle"
  /\ inv < MaxInvocations
  /\ inv' = inv + 1
  /\ exitCode' = code
  /\ UNCHANGED <<fs, fileCache, lastCall, stale, cleared, edits>>
  /\ UNCHANGED <<pc, remaining, recInv>>
  /\ UNCHANGED matchVars
  /\ UNCHANGED extVars
  /\ UNCHANGED moreVars

\* findColors
FindColorsStart == StartScan("colors")

FindColorsResult == ScanResult("colors", FALSE)

FindColorsEnd == EndScan("colors")

\* compareVars: --vars is missing, or the palette is empty
CompareVarsRefuses == RunWithoutClassifier(1)

\* compareVars, from clearCache() on; the loop also skips a result that
\* isInBlockComment reports
CompareVarsStart == StartScan("compare")

CompareVarsResult == ScanResult("compare", TRUE)

CompareVarsEnd == EndScan("compare")

\* findTailwind and findPatterns: neither clears the cache nor classifies
FindTailwind == RunWithoutClassifier(exitCode)

FindPatterns == RunWithoutClassifier(exitCode)

NextCmd ==
  \/ FindColorsStart \/ FindColorsResult \/ FindColorsEnd
  \/ CompareVarsRefuses
  \/ CompareVarsStart \/ CompareVarsResult \/ CompareVarsEnd
  \/ FindTailwind \/ FindPatterns

InitCmd == \E c \in ContentIds : InitWith(ComponentFile, c)

SpecCmd == InitCmd /\ [][NextCmd]_vars

(***************************************************************************)
(* ------------------------------ matchers ------------------------------  *)
(* parseVariablesFile fills the palette, then a matcher is called.  The    *)
(* matchers keep no state between calls, so a behaviour follows one call.  *)
(***************************************************************************)
\* the variables file declares one more variable
DeclareVariable ==
  /\ found = NoFound
  /\ Len(palette) < MaxPalette
  /\ \E name \in VarNames, value \in PaletteValues :
       /\ \A i \in 1..Len(palette) : palette[i].name # name
       /\ palette' = Append(palette, [name |-> name, value |-> value])
  /\ found' = NoFound
  /\ UNCHANGED <<fs, fileCache, lastCall, stale, cleared, edits>>
  /\ UNCHANGED cmdVars
  /\ UNCHANGED extVars
  /\ UNCHANGED moreVars

\* a call of findNearestColor
FindNearestColor ==
  /\ found = NoFound
  /\ \E colour \in InputColours :
       LET nearest == findNearestColor(colour, palette)
       IN  found' = [fn |-> "plain", colour |-> colour, prop |-> NoProp,
                     idx |-> nearest.idx, distance |-> nearest.distance]
  /\ UNCHANGED <<fs, fileCache, lastCall, stale, cleared, edits, palette>>
  /\ UNCHANGED cmdVars
  /\ UNCHANGED extVars
  /\ UNCHANGED moreVars

\* a call of findNearestColorSemantic
FindNearestColorSemantic ==
  /\ found = NoFound
  /\ \E colour \in InputColours, cssProp \in CssProps \cup {NoProp} :
       LET nearest == findNearestColorSemantic(colour, palette, cssProp)
       IN  found' = [fn |-> "semantic", colour |-> colour, prop |-> cssProp,
                     idx |-> nearest.idx, distance |-> nearest.distance]
  /\ UNCHANGED <<fs, fileCache, lastCall, stale, cleared, edits, palette>>
  /\ UNCHANGED cmdVars
  /\ UNCHANGED extVars
  /\ UNCHANGED moreVars

NextMatch == DeclareVariable \/ FindNearestColor \/ FindNearestColorSemantic

InitMatch == InitWith(ComponentFile, OtherContent)

SpecMatch == InitMatch /\ [][NextMatch]_vars

(***************************************************************************)
(* ----------------------------- compareVars ----------------------------  *)
(* The run of compareVars on result records: the variables file, the       *)
(* results of the search in the order of their arrival, the baseline file  *)
(* and the options --baseline, --diff and --fix.                           *)
(***************************************************************************)
\* a variables file: whether it exists, and the values it declares, in order
VarsFile(exists, decls) == [exists |-> exists, decls |-> decls]

DeclaredValues == {Colour("rgb", 6), Colour("nan", 0), Colour("bad", 0)}

VarsFiles ==
  {VarsFile(FALSE, <<>>)}
    \cup { VarsFile(TRUE, d) : d \in UNION { [1..n -> DeclaredValues] : n \in 0..MaxDecls } }

\* normalizeToHex: null, or rgbToHex of the parsed colour; a NaN channel
\* prints as NaN ('#NaN0000'), a text that is no colour
normalizeToHex(str) ==
  LET rgb == parseColor(str)
  IN  IF rgb = Null THEN Null
      ELSE IF rgb.kind = "nan" THEN Colour("bad", 0)
      ELSE rgb

\* parseVariablesFile: null for a missing file, else the declarations whose
\* normalizeToHex is not null
parseVariablesFile(file) ==
  IF ~file.exists THEN [null |-> TRUE, entries |-> <<>>]
  ELSE LET hexes == [i \in 1..Len(file.decls) |-> normalizeToHex(file.decls[i])]
       IN  [null |-> FALSE, entries |-> SelectSeq(hexes, LAMBDA h : h # Null)]

\* a search result: file (a sequence of characters), line, column and match
Occurrence(file, line, column, value) ==
  [file |-> file, line |-> line, column |-> column, value |-> value]

SourceFiles == { <<"a", ".css">>, <<"C", ":", "b", ".css">> }

Occurrences ==
  { Occurrence(f, l, 1, v) : f \in SourceFiles, l \in {1, 2}, v \in {"#FFF", "white"} }
    \cup { Occurrence(<<"a", ".css">>, 1, 2, v) :
              v \in {"#FFF", "#000", "oklch(0.7 0.1 200)"} }

\* the values of a hex field that are no string: null, and the undefined of
\* a property that is absent
NullHex == [null |-> TRUE, undefined |-> FALSE, text |-> ""]

UndefinedHex == [null |-> FALSE, undefined |-> TRUE, text |-> ""]

Hex(text) == [null |-> FALSE, undefined |-> FALSE, text |-> text]

\* normalizeToHex of the matches of the project: null for a colour function
\* that parseColor does not read
HexText(value) ==
  CASE value = "#FFF" -> Hex("#ffffff")
    [] value = "white" -> Hex("#ffffff")
    [] value = "#000" -> Hex("#000000")
    [] value = "oklch(0.7 0.1 200)" -> NullHex

\* the text of a value in a template string
TemplateText(v) ==
  IF v.null THEN "null" ELSE IF v.undefined THEN "undefined" ELSE v.text

\* JSON.stringify of a property: left out when undefined, the literal null,
\* or the text between quotes
JsonStringifyWithoutNull(v) ==
  IF v.undefined \/ v.null THEN [present |-> FALSE, quoted |-> FALSE, text |-> ""]
  ELSE [present |-> TRUE, quoted |-> TRUE, text |-> v.text]

JsonStringify(v) ==
  IF v.undefined THEN [present |-> FALSE, quoted |-> FALSE, text |-> ""]
  ELSE IF v.null THEN [present |-> TRUE, quoted |-> FALSE, text |-> "null"]
  ELSE [present |-> TRUE, quoted |-> TRUE, text |-> v.text]

\* the property of the object JSON.parse returns
JsonParse(p) ==
  IF ~p.present THEN UndefinedHex
  ELSE IF ~p.quoted THEN NullHex
  ELSE Hex(p.text)

\* the result record compareVars pushes for an occurrence
ResultOf(o) ==
  [file |-> o.file, line |-> o.line, column |-> o.column, value |-> o.value,
   hex |-> HexText(o.value)]

\* the results of the search, in every order of arrival
RawResults == UNION { [1..n -> Occurrences] : n \in 0..MaxRaw }

\* the key of the deduplication: file:line:column
PositionKey(r) == r.file \o <<":", ToString(r.line), ":", ToString(r.column)>>

\* results.filter with the seen set: the first result of every key is kept
RECURSIVE Dedupe(_, _)
Dedupe(results, seen) ==
  IF results = <<>> THEN <<>>
  ELSE LET r == Head(results)
       IN  IF PositionKey(r) \in seen
             THEN Dedupe(Tail(results), seen)
             ELSE <<r>> \o Dedupe(Tail(results), seen \cup {PositionKey(r)})

\* saveBaseline: the records written to the baseline file, as JSON.parse
\* reads them back
saveBaseline(results) ==
  [i \in 1..Len(results) |->
     [file |-> results[i].file, line |-> results[i].line,
      column |-> results[i].column, value |-> results[i].value,
      hex |-> JsonParse(JsonStringify(results[i].hex))]]

\* a baseline file: missing, text that is no JSON, or a JSON value: an
\* object, or an array of records, of numbers or of nulls
BaselineFile(kind, items) == [kind |-> kind, items |-> items]

BaselineFiles ==
  { BaselineFile(k, <<>>) : k \in {"missing", "garbage", "object", "array"} }
    \cup { BaselineFile(k, <<>>) : k \in {"numbers", "nulls"} }
    \cup { BaselineFile("array", saveBaseline(<<ResultOf(o)>>)) : o \in Occurrences }

BaselineKeyAnyFile(r) == <<r.value, ":", TemplateText(r.hex)>>

\* the key of the difference: file:value:hex
BaselineKey(r) == r.file \o <<":", r.value, ":", TemplateText(r.hex)>>

\* the try block of diffAgainstBaseline throws: JSON.parse on text that is
\* no JSON, baseline.map on an object, b.file on null
DiffThrows(file) == file.kind \in {"garbage", "object", "nulls"}

\* new Set(baseline.map(...)): a number has no file, value or hex
BaselineKeys(file) ==
  IF file.kind = "numbers" THEN { <<"undefined", ":", "undefined", ":", "undefined">> }
  ELSE { BaselineKey(file.items[i]) : i \in 1..Len(file.items) }

diffAgainstBaselineFatal(results, file) ==
  IF file.kind = "missing" \/ DiffThrows(file) THEN <<>>
  ELSE SelectSeq(results, LAMBDA r : BaselineKey(r) \notin BaselineKeys(file))

diffAgainstBaseline(results, file) ==
  IF file.kind = "missing" THEN results
  ELSE IF DiffThrows(file) THEN results
  ELSE SelectSeq(results, LAMBDA r : BaselineKey(r) \notin BaselineKeys(file))

\* compareVars up to the two error returns
CompareStart ==
  /\ cmp.pc = "start"
  /\ \E hasVars \in BOOLEAN, file \in VarsFiles :
       LET pal == parseVariablesFile(file)
           refuses == ~hasVars \/ pal.null \/ Len(pal.entries) = 0
           valid == { i \in 1..Len(pal.entries) : parseColor(pal.entries[i]) # Null }
       IN  cmp' = [cmp EXCEPT
                     !.pc = IF refuses THEN "done" ELSE "scan",
                     !.varsGiven = hasVars,
                     !.varsExists = hasVars /\ file.exists,
                     !.varsValid = hasVars /\ valid # {},
                     !.exit = IF refuses THEN 1 ELSE 0]
  /\ UNCHANGED <<fs, fileCache, lastCall, stale, cleared, edits, pat, col>>
  /\ UNCHANGED moreVars
  /\ UNCHANGED cmdVars
  /\ UNCHANGED matchVars

\* the search, the loop over its results and the deduplication
CompareScan ==
  /\ cmp.pc = "scan"
  /\ \E raw \in RawResults :
       cmp' = [cmp EXCEPT
                 !.pc = "baseline",
                 !.effects = @ \cup {"search"}
                               \cup (IF raw # <<>> THEN {"classify"} ELSE {}),
                 !.results = Dedupe([i \in 1..Len(raw) |-> ResultOf(raw[i])], {})]
  /\ UNCHANGED <<fs, fileCache, lastCall, stale, cleared, edits, pat, col>>
  /\ UNCHANGED moreVars
  /\ UNCHANGED cmdVars
  /\ UNCHANGED matchVars

\* options.baseline: saveBaseline
CompareBaseline ==
  /\ cmp.pc = "baseline"
  /\ \E save \in BOOLEAN :
       cmp' = [cmp EXCEPT
                 !.pc = "diff",
                 !.effects = @ \cup (IF save THEN {"baseline"} ELSE {})]
  /\ UNCHANGED <<fs, fileCache, lastCall, stale, cleared, edits, pat, col>>
  /\ UNCHANGED moreVars
  /\ UNCHANGED cmdVars
  /\ UNCHANGED matchVars

\* options.diff: diffAgainstBaseline against the file --diff names, which
\* can be the baseline this run has just saved
CompareDiff ==
  /\ cmp.pc = "diff"
  /\ \E diff \in BOOLEAN :
       \E file \in BaselineFiles
                     \cup (IF "baseline" \in cmp.effects
                             THEN {BaselineFile("array", saveBaseline(cmp.results))}
                             ELSE {}) :
         cmp' = [cmp EXCEPT
                   !.pc = "out",
                   !.diffed = diff,
                   !.diffFile = IF diff THEN file ELSE BaselineFile("missing", <<>>),
                   !.final = IF diff THEN diffAgainstBaseline(cmp.results, file)
                                     ELSE cmp.results]
  /\ UNCHANGED <<fs, fileCache, lastCall, stale, cleared, edits, pat, col>>
  /\ UNCHANGED moreVars
  /\ UNCHANGED cmdVars
  /\ UNCHANGED matchVars

\* options.fix: applyFixes and return; else outputJson or outputText
CompareOutput ==
  /\ cmp.pc = "out"
  /\ \E fix \in BOOLEAN :
       cmp' = [cmp EXCEPT
                 !.pc = "done",
                 !.effects = @ \cup (IF fix THEN {"fix"} ELSE {"print"})]
  /\ UNCHANGED <<fs, fileCache, lastCall, stale, cleared, edits, pat, col>>
  /\ UNCHANGED moreVars
  /\ UNCHANGED cmdVars
  /\ UNCHANGED matchVars

NextCompare ==
  CompareStart \/ CompareScan \/ CompareBaseline \/ CompareDiff \/ CompareOutput

InitCompare == InitWith(ComponentFile, OtherContent)

SpecCompare == InitCompare /\ [][NextCompare]_vars

(***************************************************************************)
(* ----------------------------- findPatterns ---------------------------  *)
(* The class strings of the search are normalized, grouped and counted;    *)
(* the groups that repeat are ranked and the pairs of classes that occur   *)
(* together are counted.  A class string is the sequence of its classes    *)
(* and of the runs of whitespace between them.                             *)
(***************************************************************************)
\* the classes of the project in the order of Array.prototype.sort
ClassOrder ==
  <<"block", "border", "flex", "gap-2", "items-center", "mt-1", "mx-2",
    "rounded", "text-sm", "w-full">>

Classes == { ClassOrder[i] : i \in 1..Len(ClassOrder) }

RankOf ==
  [cls \in Classes |-> CHOOSE i \in 1..Len(ClassOrder) : ClassOrder[i] = cls] @@ <<>>

Rank(cls) == RankOf[cls]

Whitespace == {" ", "  ", "\t", "\n"}

ClassStrings ==
  { <<"flex", " ", "items-center", " ", "gap-2">>,
    <<"gap-2", "  ", "flex", "\t", "items-center">>,
    <<"flex", " ", "gap-2">>,
    <<"flex", " ", "flex", "\n", "gap-2">>,
    <<"w-full", " ", "block", " ", "rounded", " ", "border", " ", "mt-1", " ",
      "text-sm", " ", "mx-2">> }

\* the results of the search for class strings, in the order of arrival
AllResults == UNION { [1..n -> ClassStrings] : n \in 0..MaxOccurrences }

\* parseInt(option) || 2
OptionOrDefault(option) == IF option = 0 THEN 2 ELSE option

MinOptions == 0..3

\* classString.split(/\s+/).filter(Boolean)
extractClassList(classString) ==
  SelectSeq(classString, LAMBDA t : t \notin Whitespace)

RECURSIVE SortInsert(_, _)
SortInsert(cls, sorted) ==
  IF sorted = <<>> THEN <<cls>>
  ELSE IF Rank(cls) < Rank(Head(sorted)) THEN <<cls>> \o sorted
  ELSE <<Head(sorted)>> \o SortInsert(cls, Tail(sorted))

\* [...classes].sort()
RECURSIVE SortClasses(_)
SortClasses(classes) ==
  IF classes = <<>> THEN <<>>
  ELSE SortInsert(Head(classes), SortClasses(Tail(classes)))

\* .join(' ')
RECURSIVE JoinSpace(_)
JoinSpace(classes) ==
  IF Len(classes) <= 1 THEN classes
  ELSE <<Head(classes), " ">> \o JoinSpace(Tail(classes))

Normalize(classes) == JoinSpace(SortClasses(classes))

\* the position in the map of the entry of a normalized string, 0 for none
EntryOf(map, normalized) ==
  IF \E k \in 1..Len(map) : map[k].normalized = normalized
    THEN CHOOSE k \in 1..Len(map) : map[k].normalized = normalized
    ELSE 0

\* the loop that fills patternMap, a map in the order of insertion
RECURSIVE PatternMapLoop(_, _, _, _)
PatternMapLoop(results, i, minClasses, map) ==
  IF i > Len(results) THEN map
  ELSE
    LET classes == extractClassList(results[i])
        normalized == Normalize(classes)
        k == EntryOf(map, normalized)
        withEntry ==
          IF k # 0 THEN map
          ELSE Append(map, [normalized |-> normalized, classes |-> classes,
                            classCount |-> Len(classes), count |-> 0,
                            locations |-> <<>>])
        at == IF k # 0 THEN k ELSE Len(withEntry)
    IN  IF Len(classes) < minClasses
          THEN PatternMapLoop(results, i + 1, minClasses, map)
          ELSE PatternMapLoop(results, i + 1, minClasses,
                 [withEntry EXCEPT
                    ![at].count = @ + 1,
                    ![at].locations = Append(@, [at |-> i, original |-> results[i]])])

\* Array.prototype.sort with (a, b) => key(b) - key(a), descending and
\* stable, as the order of the indices of the list; keys[i] is the key of
\* element i
RECURSIVE InsertDescending(_, _, _)
InsertDescending(i, sorted, keys) ==
  IF sorted = <<>> THEN <<i>>
  ELSE IF keys[i] > keys[Head(sorted)] THEN <<i>> \o sorted
  ELSE <<Head(sorted)>> \o InsertDescending(i, Tail(sorted), keys)

RECURSIVE SortedIndices(_, _)
SortedIndices(n, keys) ==
  IF n = 0 THEN <<>>
  ELSE InsertDescending(n, SortedIndices(n - 1, keys), keys)

SortDescending(list, keys) ==
  LET order == SortedIndices(Len(list), keys)
  IN  [k \in 1..Len(list) |-> list[order[k]]]

\* the impact scores of a list of patterns
Scores(list) == [k \in 1..Len(list) |-> list[k].count * list[k].classCount]

\* the counts of a list of pairs
PairCounts(list) == [k \in 1..Len(list) |-> list[k].count]

RepeatedPatternsAny(map, minCount) == SortDescending(map, Scores(map))

\* the patterns of the report: the entries that repeat, by impact
RepeatedPatterns(map, minCount) ==
  LET repeated == SelectSeq(map, LAMBDA p : p.count >= minCount)
  IN  SortDescending(repeated, Scores(repeated))

\* the number of elements of a list that are x
Times(list, x) == Cardinality({ i \in 1..Len(list) : list[i] = x })

RECURSIVE ClassFreqLoop(_, _, _)
ClassFreqLoop(map, k, cls) ==
  IF k > Len(map) THEN 0
  ELSE Times(map[k].classes, cls) * map[k].count + ClassFreqLoop(map, k + 1, cls)

\* classFreq: every class of an entry adds the count of the entry
ClassFreq(map) == 
  [cls \in Classes |-> ClassFreqLoop(map, 1, cls)] @@ <<>>

\* the pairs (i, j), i < j, of a sorted list, in the order of the two loops
RECURSIVE PairsOf(_)
PairsOf(sorted) ==
  IF Len(sorted) <= 1 THEN <<>>
  ELSE [j \in 1..(Len(sorted) - 1) |-> <<sorted[1], sorted[j + 1]>>]
         \o PairsOf(Tail(sorted))

\* pairFreq.set(pair, (pairFreq.get(pair) || 0) + n)
AddPair(freq, pair, n) ==
  IF \E k \in 1..Len(freq) : freq[k].pattern = pair
    THEN LET k == CHOOSE k \in 1..Len(freq) : freq[k].pattern = pair
         IN  [freq EXCEPT ![k].count = @ + n]
    ELSE Append(freq, [pattern |-> pair, count |-> n])

RECURSIVE AddPairs(_, _, _, _, _)
AddPairs(freq, pairs, n, classFreq, minCount) ==
  IF pairs = <<>> THEN freq
  ELSE LET pair == Head(pairs)
           common == classFreq[pair[1]] >= minCount /\ classFreq[pair[2]] >= minCount
       IN  AddPairs(IF common THEN AddPair(freq, pair, n) ELSE freq,
                    Tail(pairs), n, classFreq, minCount)

RECURSIVE PairFreqLoop(_, _, _, _, _)
PairFreqLoop(map, k, freq, classFreq, minCount) ==
  IF k > Len(map) THEN freq
  ELSE PairFreqLoop(map, k + 1,
                    AddPairs(freq, PairsOf(SortClasses(map[k].classes)),
                             map[k].count, classFreq, minCount),
                    classFreq, minCount)

TopPairs == 20

findCommonSubsetsSingle(map, minCount) ==
  LET freq == PairFreqLoop(map, 1, <<>>, ClassFreq(map), minCount)
      frequent == SelectSeq(freq, LAMBDA p : p.count >= minCount)
      sorted == SortDescending(frequent, PairCounts(frequent))
  IN  SubSeq(sorted, 1, IF Len(sorted) < TopPairs THEN Len(sorted) ELSE TopPairs)

\* findCommonSubsets: the pairs of common classes that occur together at
\* least 2 * minCount times, the most frequent first, 20 at most
findCommonSubsets(map, minCount) ==
  LET freq == PairFreqLoop(map, 1, <<>>, ClassFreq(map), minCount)
      frequent == SelectSeq(freq, LAMBDA p : p.count >= minCount * 2)
      sorted == SortDescending(frequent, PairCounts(frequent))
  IN  SubSeq(sorted, 1, IF Len(sorted) < TopPairs THEN Len(sorted) ELSE TopPairs)

\* the search collaborator delivers the class strings
PatternsSearch ==
  /\ pat.pc = "start"
  /\ \E results \in AllResults :
       pat' = [pat EXCEPT !.pc = "found", !.allResults = results]
  /\ UNCHANGED <<fs, fileCache, lastCall, stale, cleared, edits, cmp, col>>
  /\ UNCHANGED moreVars
  /\ UNCHANGED cmdVars
  /\ UNCHANGED matchVars

\* the loop over the results under options.minClasses
PatternsGroup ==
  /\ pat.pc = "found"
  /\ \E option \in MinOptions :
       LET minClasses == OptionOrDefault(option)
       IN  pat' = [pat EXCEPT
                     !.pc = "grouped",
                     !.minClasses = minClasses,
                     !.patternMap = PatternMapLoop(pat.allResults, 1, minClasses, <<>>)]
  /\ UNCHANGED <<fs, fileCache, lastCall, stale, cleared, edits, cmp, col>>
  /\ UNCHANGED moreVars
  /\ UNCHANGED cmdVars
  /\ UNCHANGED matchVars

\* the filter, the ranking and findCommonSubsets under options.minCount,
\* handed to the output
PatternsReport ==
  /\ pat.pc = "grouped"
  /\ \E option \in MinOptions :
       LET minCount == OptionOrDefault(option)
       IN  pat' = [pat EXCEPT
                     !.pc = "done",
                     !.minCount = minCount,
                     !.patterns = RepeatedPatterns(pat.patternMap, minCount),
                     !.subPatterns = findCommonSubsets(pat.patternMap, minCount)]
  /\ UNCHANGED <<fs, fileCache, lastCall, stale, cleared, edits, cmp, col>>
  /\ UNCHANGED moreVars
  /\ UNCHANGED cmdVars
  /\ UNCHANGED matchVars

NextPatterns == PatternsSearch \/ PatternsGroup \/ PatternsReport

InitPatterns == InitWith(ComponentFile, OtherContent)

SpecPatterns == InitPatterns /\ [][NextPatterns]_vars

(***************************************************************************)
(* ----------------------------- colour literals ------------------------  *)
(* parseColor, rgbToHex and extractAlpha on the text of a literal.  A hex  *)
(* literal is the sequence of the characters after #: a hex digit is its   *)
(* value 0..15 and 16 is a character that is no hex digit.  A functional   *)
(* literal is its name, its separator, its three arguments and its alpha;  *)
(* the number of an argument is held in hundredths, NaN for a text of      *)
(* digits and dots that parseFloat does not read, such as a lone dot.      *)
(***************************************************************************)
NoDigit == 16

HexLiteral(digits) == [syntax |-> "hex", digits |-> digits]

Arg(n, pct) == [n |-> n, pct |-> pct]

NoAlpha == [given |-> FALSE, n |-> 0, pct |-> FALSE]

Alpha(n, pct) == [given |-> TRUE, n |-> n, pct |-> pct]

\* name(a1 sep a2 sep a3 [sep alpha]), the alpha after a slash when the
\* separator is a space; unit is the unit written after the first argument
FuncLiteral(name, sep, args, unit, alpha) ==
  [syntax |-> "func", name |-> name, sep |-> sep, args |-> args, unit |-> unit,
   alpha |-> alpha]

NamedLiteral(name) == [syntax |-> "named", name |-> name]

\* NAMED_COLORS, as far as the tests show it
NAMED_COLORS ==
  ("red" :> HexLiteral(<<15, 15, 0, 0, 0, 0>>))
    @@ ("blue" :> HexLiteral(<<0, 0, 0, 0, 15, 15>>))

\* str.substring(from, to)
Substring(str, from, to) ==
  SubSeq(str, from + 1, IF to < Len(str) THEN to ELSE Len(str))

\* parseInt(chars, 16) of at most two characters: the leading hex digits
ParseInt16(chars) ==
  IF chars = <<>> \/ chars[1] = NoDigit THEN NaN
  ELSE IF Len(chars) = 1 \/ chars[2] = NoDigit THEN chars[1]
  ELSE 16 * chars[1] + chars[2]

\* hex.split('').map(c => c + c).join('')
RECURSIVE Doubled(_)
Doubled(digits) ==
  IF digits = <<>> THEN <<>>
  ELSE <<Head(digits), Head(digits)>> \o Doubled(Tail(digits))

hexToRgb(digits) ==
  LET hex == IF Len(digits) \in {3, 4} THEN Doubled(digits) ELSE digits
      r == ParseInt16(Substring(hex, 0, 2))
      g == ParseInt16(Substring(hex, 2, 4))
      b == ParseInt16(Substring(hex, 4, 6))
  IN  IF r = NaN \/ g = NaN \/ b = NaN THEN Null
      ELSE [r |-> r, g |-> g, b |-> b]

\* Math.round of a number of hundredths
Round(n) == IF n = NaN THEN NaN ELSE (n + 50) \div 100

\* Math.round(r * 2.55) of a number of hundredths
RoundPercent(n) == IF n = NaN THEN NaN ELSE (n * 255 + 5000) \div 10000

\* the patterns of rgbStringToRgb: rgb or rgba, three arguments of digits
\* and dots, each with or without %, no unit, an alpha of either form
RgbPatternMatches(lit) == lit.name \in {"rgb", "rgba"} /\ lit.unit = ""

rgbStringToRgb(lit) ==
  IF ~RgbPatternMatches(lit) THEN Null
  ELSE LET percent == lit.args[1].pct
           channel(i) == IF percent THEN RoundPercent(lit.args[i].n)
                                    ELSE Round(lit.args[i].n)
       IN  [r |-> channel(1), g |-> channel(2), b |-> channel(3)]

\* hue2rgb in sixtieths: p and q are numbers of ten-thousandths, t is a
\* number of degrees (t * 360)
hue2rgb(p, q, t) ==
  LET t1 == IF t < 0 THEN t + 360 ELSE t
      t2 == IF t1 > 360 THEN t1 - 360 ELSE t1
  IN  IF t2 < 60 THEN 60 * p + (q - p) * t2
      ELSE IF t2 < 180 THEN 60 * q
      ELSE IF t2 < 240 THEN 60 * p + (q - p) * (240 - t2)
      ELSE 60 * p

\* Math.round(x * 255) of a number of sixtieths of ten-thousandths
RoundChannel(x) == (x * 510 + 600000) \div 1200000

\* the patterns of hslStringToRgb: hsl or hsla, a hue with or without unit
HslPatternMatches(lit) == lit.name \in {"hsl", "hsla"} /\ ~lit.args[1].pct

\* hslStringToRgb; the h, s and l of the literals are whole numbers
hslStringToRgb(lit) ==
  IF ~HslPatternMatches(lit) THEN Null
  ELSE
    LET h == lit.args[1].n
        s == lit.args[2].n
        l == lit.args[3].n
        H == h \div 100
        S == s \div 100
        L == l \div 100
        q == IF L < 50 THEN L * (100 + S) ELSE 100 * L + 100 * S - L * S
        p == 200 * L - q
        grey == IF l = NaN THEN NaN ELSE (L * 255 + 50) \div 100
        channel(shift) ==
          IF s = NaN \/ l = NaN THEN NaN
          ELSE IF h = NaN THEN RoundChannel(60 * p)
          ELSE RoundChannel(hue2rgb(p, q, H + shift))
    IN  IF s = 0
          THEN [r |-> grey, g |-> grey, b |-> grey]
          ELSE [r |-> channel(120), g |-> channel(0), b |-> channel(-120)]

\* parseColor on the text of a literal
parseColorLiteral(lit) ==
  IF lit.syntax = "named"
    THEN IF lit.name \in DOMAIN NAMED_COLORS
           THEN hexToRgb(NAMED_COLORS[lit.name].digits)
           ELSE Null
  ELSE IF lit.syntax = "hex" THEN hexToRgb(lit.digits)
  ELSE IF lit.name \in {"rgb", "rgba"} THEN rgbStringToRgb(lit)
  ELSE IF lit.name \in {"hsl", "hsla"} THEN hslStringToRgb(lit)
  ELSE Null

\* Math.max(0, Math.min(255, Math.round(c))).toString(16).padStart(2, '0');
\* NaN prints as the three characters NaN
ChannelHex(c) ==
  IF c = NaN THEN <<NoDigit, 10, NoDigit>>
  ELSE LET clamped == IF c < 0 THEN 0 ELSE IF c > 255 THEN 255 ELSE c
       IN  <<clamped \div 16, clamped % 16>>

rgbToHex(rgb) == HexLiteral(ChannelHex(rgb.r) \o ChannelHex(rgb.g) \o ChannelHex(rgb.b))

\* the result of extractAlpha: null, or an alpha in hundredths
NullAlpha == [null |-> TRUE, value |-> 0]

AlphaValue(n) == [null |-> FALSE, value |-> n]

\* a < 1 ? Math.round(a * 100) / 100 : null, for a = byte / 255
HexAlpha(byte) ==
  IF byte = NaN \/ byte >= 255 THEN NullAlpha
  ELSE AlphaValue((byte * 200 + 255) \div 510)

\* the text between the last separator and the closing parenthesis
LastArgument(lit) ==
  IF lit.alpha.given THEN Arg(lit.alpha.n, lit.alpha.pct) ELSE lit.args[3]

extractAlpha(lit) ==
  IF lit.syntax = "named" THEN NullAlpha
  ELSE IF lit.syntax = "hex" THEN
    IF Len(lit.digits) = 8 THEN HexAlpha(ParseInt16(Substring(lit.digits, 6, 8)))
    ELSE IF Len(lit.digits) = 4 THEN HexAlpha(ParseInt16(<<lit.digits[4], lit.digits[4]>>))
    ELSE NullAlpha
  ELSE IF lit.sep = "space" /\ lit.alpha.given THEN
    \* modern: / alpha or / alpha%
    IF lit.alpha.n = NaN THEN AlphaValue(NaN)
    ELSE IF lit.alpha.pct THEN AlphaValue(lit.alpha.n \div 100)
    ELSE AlphaValue(lit.alpha.n)
  ELSE IF /\ lit.sep = "comma"
          /\ ~LastArgument(lit).pct
          /\ lit.name \in {"rgba", "hsla"}
    \* legacy: the digits between the last comma and the parenthesis
    THEN AlphaValue(LastArgument(lit).n)
  ELSE NullAlpha

\* the literals of the project
HexLiterals ==
  LET short == UNION { [1..n -> {0, 8, 15}] : n \in {3, 4} }
      bytes == { <<0, 0>>, <<8, 0>>, <<15, 15>>, <<0, 15>> }
      long == { r \o g \o b : r \in bytes, g \in bytes, b \in bytes }
      longer == { c \o a : c \in long, a \in { <<15, 15>>, <<8, 0>>, <<0, 0>> } }
      other == { <<NoDigit, 0, 0>>, <<1, NoDigit, 0, 0, 0, 0>>, <<15, 15>>,
                 <<15, 15, 15, 15, 15>> }
  IN  { HexLiteral(d) : d \in short \cup long \cup longer \cup other }

Alphas ==
  { NoAlpha, Alpha(50, FALSE), Alpha(100, FALSE), Alpha(5000, TRUE),
    Alpha(10000, TRUE) }

RgbArgs ==
  { Arg(0, FALSE), Arg(25500, FALSE), Arg(30000, FALSE), Arg(12750, FALSE),
    Arg(NaN, FALSE), Arg(10000, TRUE), Arg(12000, TRUE) }

RgbLiterals ==
  { FuncLiteral(name, sep, <<r, g, b>>, "", alpha) :
      name \in {"rgb", "rgba"}, sep \in {"comma", "space"},
      r \in RgbArgs, g \in {Arg(0, FALSE), Arg(25500, FALSE)}, b \in RgbArgs,
      alpha \in Alphas }

HslLiterals ==
  { FuncLiteral(name, sep, <<Arg(h, FALSE), Arg(s, TRUE), l>>, unit, alpha) :
      name \in {"hsl", "hsla"}, sep \in {"comma", "space"},
      h \in {0, 6000, 12000, 24000, 42000},
      s \in {0, 5000, 10000, 15000, NaN},
      l \in { Arg(0, TRUE), Arg(5000, TRUE), Arg(10000, TRUE), Arg(15000, TRUE),
              Arg(5000, FALSE) },
      unit \in {"", "deg"}, alpha \in Alphas }

OtherLiterals ==
  { NamedLiteral("red"), NamedLiteral("blue"), NamedLiteral("notacolor"),
    FuncLiteral("rgb", "comma", <<Arg(0, FALSE), Arg(0, FALSE), Arg(0, FALSE)>>,
                "deg", NoAlpha),
    FuncLiteral("hsl", "comma", <<Arg(0, TRUE), Arg(0, TRUE), Arg(0, TRUE)>>,
                "", NoAlpha),
    FuncLiteral("oklch", "space", <<Arg(88, FALSE), Arg(5, FALSE), Arg(14300, FALSE)>>,
                "", NoAlpha) }

Literals == HexLiterals \cup RgbLiterals \cup HslLiterals \cup OtherLiterals

\* parseColor(x)
ParseColor ==
  /\ col.pc = "start"
  /\ \E lit \in Literals :
       col' = [col EXCEPT !.pc = "parsed", !.literal = lit,
                          !.rgb = parseColorLiteral(lit)]
  /\ UNCHANGED <<fs, fileCache, lastCall, stale, cleared, edits, cmp, pat>>
  /\ UNCHANGED moreVars
  /\ UNCHANGED cmdVars
  /\ UNCHANGED matchVars

\* rgbToHex of the parsed triple, as normalizeToHex does
RgbToHex ==
  /\ col.pc = "parsed" /\ col.rgb # Null
  /\ col' = [col EXCEPT !.pc = "hexed", !.hex = rgbToHex(col.rgb)]
  /\ UNCHANGED <<fs, fileCache, lastCall, stale, cleared, edits, cmp, pat>>
  /\ UNCHANGED moreVars
  /\ UNCHANGED cmdVars
  /\ UNCHANGED matchVars

\* parseColor of the hex string
ParseHex ==
  /\ col.pc = "hexed"
  /\ col' = [col EXCEPT !.pc = "reparsed", !.again = parseColorLiteral(col.hex)]
  /\ UNCHANGED <<fs, fileCache, lastCall, stale, cleared, edits, cmp, pat>>
  /\ UNCHANGED moreVars
  /\ UNCHANGED cmdVars
  /\ UNCHANGED matchVars

\* extractAlpha(x)
ExtractAlpha ==
  /\ col.pc = "start"
  /\ \E lit \in Literals :
       col' = [col EXCEPT !.pc = "alpha", !.literal = lit,
                          !.alpha = extractAlpha(lit)]
  /\ UNCHANGED <<fs, fileCache, lastCall, stale, cleared, edits, cmp, pat>>
  /\ UNCHANGED moreVars
  /\ UNCHANGED cmdVars
  /\ UNCHANGED matchVars

NextColor == ParseColor \/ RgbToHex \/ ParseHex \/ ExtractAlpha

InitColor == InitWith(ComponentFile, OtherContent)

SpecColor == InitColor /\ [][NextColor]_vars

(***************************************************************************)
(* ----------------------------- mergeOptions ---------------------------  *)
(* The options commander hands to a command, merged with the config file.  *)
(* An option is a record [has, value]: has is FALSE for undefined.         *)
(***************************************************************************)
\* undefined; the filler keeps the type of the option
Undefined(filler) == [has |-> FALSE, value |-> filler]

Value(v) == [has |-> TRUE, value |-> v]

\* the options of the command line: what the user wrote, undefined for an
\* option the user did not write
CommandLines ==
  [threshold : {Undefined(""), Value("10"), Value("20")},
   minCount : {Undefined(""), Value("2"), Value("4")},
   minClasses : {Undefined(""), Value("3")},
   exclude : {Undefined(<<>>), Value(<<"*.test.*">>)},
   include : {Undefined(""), Value("*.tsx")},
   vars : {Undefined(""), Value("theme.css")},
   named : {Undefined(TRUE), Value(FALSE)}]

\* the config files: a key is undefined when the file does not hold it
Configs ==
  [threshold : {Undefined(0), Value(5)},
   minCount : {Undefined(0), Value(3)},
   minClasses : {Undefined(0), Value(4)},
   exclude : {Undefined(<<>>), Value(<<"dist">>)},
   include : {Undefined(""), Value("*.jsx")},
   vars : {Undefined(""), Value("tokens.css")},
   named : {Undefined(TRUE), Value(FALSE)}]

\* the opts object of commander: the value the user wrote, else the default
\* of the option's declaration ('10', '2', '2', [], true), else undefined
CommanderOpts(cli) ==
  [threshold |-> IF cli.threshold.has THEN cli.threshold ELSE Value("10"),
   minCount |-> IF cli.minCount.has THEN cli.minCount ELSE Value("2"),
   minClasses |-> IF cli.minClasses.has THEN cli.minClasses ELSE Value("2"),
   exclude |-> IF cli.exclude.has THEN cli.exclude ELSE Value(<<>>),
   include |-> cli.include,
   vars |-> cli.vars,
   named |-> IF cli.named.has THEN cli.named ELSE Value(TRUE)]

\* mergeOptions: a config value is applied when the value of the command
\* line is missing, empty or equal to the default of the option
mergeOptions(cliOpts, config) ==
  [threshold |->
     IF config.threshold.has /\ cliOpts.threshold = Value("10")
       THEN Value(ToString(config.threshold.value)) ELSE cliOpts.threshold,
   minCount |->
     IF config.minCount.has /\ config.minCount.value # 0 /\ cliOpts.minCount = Value("2")
       THEN Value(ToString(config.minCount.value)) ELSE cliOpts.minCount,
   minClasses |->
     IF config.minClasses.has /\ config.minClasses.value # 0
        /\ cliOpts.minClasses = Value("2")
       THEN Value(ToString(config.minClasses.value)) ELSE cliOpts.minClasses,
   exclude |->
     IF config.exclude.has /\ (~cliOpts.exclude.has \/ Len(cliOpts.exclude.value) = 0)
       THEN config.exclude ELSE cliOpts.exclude,
   include |->
     IF config.include.has /\ ~cliOpts.include.has
       THEN config.include ELSE cliOpts.include,
   vars |->
     IF config.vars.has /\ ~cliOpts.vars.has
       THEN config.vars ELSE cliOpts.vars,
   named |->
     IF config.named = Value(FALSE) /\ cliOpts.named # Value(FALSE)
       THEN Value(FALSE) ELSE cliOpts.named]

\* the action of a command: loadConfig, then mergeOptions(opts, config)
MergeOptions ==
  /\ opt.pc = "start"
  /\ \E cli \in CommandLines, config \in Configs :
       opt' = [pc |-> "merged", cli |-> cli, config |-> config,
               merged |-> mergeOptions(CommanderOpts(cli), config)]
  /\ UNCHANGED <<fs, fileCache, lastCall, stale, cleared, edits, fixes, stat, srch>>
  /\ UNCHANGED cmdVars
  /\ UNCHANGED matchVars
  /\ UNCHANGED extVars

NextOptions == MergeOptions

InitOptions == InitWith(ComponentFile, OtherContent)

SpecOptions == InitOptions /\ [][NextOptions]_vars

(***************************************************************************)
(* compare --fix: the occurrences ripgrep reports for the files, their     *)
(* comparison, and applyFixes, which replaces in each file the occurrences *)
(* that are actionable and exact.  Text is a sequence of characters.       *)
(***************************************************************************)
\* a character outside ASCII (U+2192): one UTF-16 code unit in the string
\* readFileSync returns, three bytes in the line ripgrep scans
Arrow == "u2192"

Utf8Width(ch) == IF ch = Arrow THEN 3 ELSE 1

RECURSIVE Utf8Length(_)
Utf8Length(str) ==
  IF str = <<>> THEN 0 ELSE Utf8Width(Head(str)) + Utf8Length(Tail(str))

\* the colour literals of the files: #fff, which the palette holds, and
\* #fff000, which it does not
White == <<"#", "f", "f", "f">>

Yellow == <<"#", "f", "f", "f", "0", "0", "0">>

FixValues == {White, Yellow}

\* var(--w), the suggestion for the palette entry --w: #ffffff
VarWhite == <<"v", "a", "r", "(", "-", "-", "w", ")">>

\* what precedes the first literal of a line
Prefixes == {<<>>, <<"a", ":">>, <<Arrow, " ">>}

ItemLists == UNION {[1..n -> FixValues] : n \in 1..MaxItems}

\* a line of a file: its literals, separated by one space, after the prefix,
\* and the tag classifyContext gives to the occurrences of the line
FixLines ==
  [prefix : Prefixes, items : ItemLists, tag : {"actionable", "meta"}]

RECURSIVE JoinItems(_)
JoinItems(items) ==
  IF items = <<>> THEN <<>>
  ELSE IF Len(items) = 1 THEN items[1]
  ELSE items[1] \o <<" ">> \o JoinItems(Tail(items))

FixLineText(l) == l.prefix \o JoinItems(l.items)

\* the files of the project: src/a.css of one or two lines, src/b.css of one
ClosingLines ==
  {[prefix |-> <<>>, items |-> <<v>>, tag |-> "actionable"] : v \in FixValues}

FixPaths == <<"src/a.css", "src/b.css">>

FixSources ==
  {<<a, <<b>>>> :
     a \in {<<l>> : l \in FixLines}
           \cup {<<l, k>> : l \in FixLines, k \in ClosingLines},
     b \in [prefix : {<<>>}, items : {<<v>> : v \in FixValues},
            tag : {"actionable", "meta"}]}

\* the index in the line's string of literal i of the line
RECURSIVE ItemIndex(_, _)
ItemIndex(l, i) ==
  IF i = 1 THEN Len(l.prefix)
  ELSE ItemIndex(l, i - 1) + Len(l.items[i - 1]) + 1

\* the submatch start ripgrep reports for literal i: its offset in bytes
SubmatchStart(l, i) ==
  Utf8Length(SubSeq(FixLineText(l), 1, ItemIndex(l, i)))

\* the record parseRipgrepJson builds for literal i of line n of file f
RawResult(f, n, l, i) ==
  [file |-> f, line |-> n, column |-> SubmatchStart(l, i) + 1,
   match |-> l.items[i], tag |-> l.tag]

\* the status and the suggestion of a literal against the palette
FixStatus(value) == IF value = White THEN "exact" ELSE "unmatched"

FixSuggestion(value) == IF value = White THEN VarWhite ELSE <<>>

\* the record compareVars pushes for a raw result; <<>> is a null suggestion
FixResult(raw) ==
  [file |-> raw.file, line |-> raw.line, column |-> raw.column,
   value |-> raw.match, status |-> FixStatus(raw.match),
   actionable |-> raw.tag = "actionable",
   suggestion |-> FixSuggestion(raw.match)]

RECURSIVE LineResults(_, _, _, _)
LineResults(f, n, l, i) ==
  IF i > Len(l.items) THEN <<>>
  ELSE <<FixResult(RawResult(f, n, l, i))>> \o LineResults(f, n, l, i + 1)

RECURSIVE FileResults(_, _, _)
FileResults(f, lines, n) ==
  IF n > Len(lines) THEN <<>>
  ELSE LineResults(f, n, lines[n], 1) \o FileResults(f, lines, n + 1)

\* the results of the run, in ripgrep's order: by file, line and column
FixResults(source) ==
  FileResults(1, source[1], 1) \o FileResults(2, source[2], 1)

\* the content of the files on disk: the strings of their lines
FixContent(source) ==
  [f \in 1..Len(source) |->
     [n \in 1..Len(source[f]) |-> FixLineText(source[f][n])]]

\* str.indexOf(value, from), -1 when value does not occur from there on
indexOf(str, value, from) ==
  LET hits == {i \in from..(Len(str) - Len(value)) :
                 SubSeq(str, i + 1, i + Len(value)) = value}
  IN  IF hits = {} THEN -1
      ELSE CHOOSE i \in hits : \A j \in hits : i <= j

\* the results applyFixes keeps
exactActionable(results) ==
  SelectSeq(results,
            LAMBDA r : r.actionable /\ r.status = "exact"
                         /\ r.suggestion # <<>>)

\* Object.entries(byFile): the files of the kept results by first appearance
RECURSIVE byFile(_)
byFile(results) ==
  IF results = <<>> THEN <<>>
  ELSE LET rest == byFile(SelectSeq(Tail(results),
                                    LAMBDA r : r.file # Head(results).file))
       IN  <<Head(results).file>> \o rest

\* the loop over the sorted results of one file: the lines and the count
RECURSIVE ReplaceLoop(_, _, _)
ReplaceLoop(lines, sorted, count) ==
  IF sorted = <<>> THEN [lines |-> lines, count |-> count]
  ELSE
    LET r == Head(sorted)
        lineIdx == r.line - 1
    IN  IF lineIdx < 0 \/ lineIdx >= Len(lines)
          THEN ReplaceLoop(lines, Tail(sorted), count)
          ELSE
            LET line == lines[lineIdx + 1]
                c == r.column - 1
                matchIdx == indexOf(line, r.value, IF c > 0 THEN c - 1 ELSE 0)
            IN  IF matchIdx = -1
                  THEN ReplaceLoop(lines, Tail(sorted), count)
                  ELSE ReplaceLoop(
                         [lines EXCEPT ![lineIdx + 1] =
                            Substring(line, 0, matchIdx) \o r.suggestion
                              \o Substring(line, matchIdx + Len(r.value),
                                           Len(line))],
                         Tail(sorted), count + 1)

\* the key of the sort (a, b) => b.line - a.line || b.column - a.column
FixKeys(list) ==
  LET columns == {list[k].column : k \in 1..Len(list)}
      span == 1 + (IF columns = {} THEN 0
                   ELSE CHOOSE c \in columns : \A d \in columns : d <= c)
  IN  [k \in 1..Len(list) |-> list[k].line * span + list[k].column]

\* compareVars up to the call of applyFixes, and the start of applyFixes
CompareFix ==
  /\ fixes.pc = "start"
  /\ \E source \in FixSources, writable \in [1..2 -> BOOLEAN] :
       LET results == FixResults(source)
       IN  fixes' = [pc |-> "fixing", source |-> source,
                     files |-> FixContent(source), writable |-> writable,
                     results |-> results,
                     queue |-> byFile(exactActionable(results)),
                     fixCount |-> 0, written |-> {}]
  /\ UNCHANGED <<fs, fileCache, lastCall, stale, cleared, edits,
                 opt, stat, srch>>
  /\ UNCHANGED cmdVars
  /\ UNCHANGED matchVars
  /\ UNCHANGED extVars

\* one turn of the loop over the files: read, replace, write; a failing
\* write is caught after the replacements have been counted
FixFile ==
  /\ fixes.pc = "fixing"
  /\ fixes.queue # <<>>
  /\ LET f == Head(fixes.queue)
         fileResults == SelectSeq(exactActionable(fixes.results),
                                  LAMBDA r : r.file = f)
         sorted == SortDescending(fileResults, FixKeys(fileResults))
         done == ReplaceLoop(fixes.files[f], sorted, fixes.fixCount)
     IN  fixes' = [fixes EXCEPT
                     !.queue = Tail(@),
                     !.fixCount = done.count,
                     !.files[f] = IF fixes.writable[f] THEN done.lines ELSE @,
                     !.written = IF fixes.writable[f] THEN @ \cup {f} ELSE @]
  /\ UNCHANGED <<fs, fileCache, lastCall, stale, cleared, edits,
                 opt, stat, srch>>
  /\ UNCHANGED cmdVars
  /\ UNCHANGED matchVars
  /\ UNCHANGED extVars

\* applyFixes returns fixCount and compareVars reports it
FixReturn ==
  /\ fixes.pc = "fixing"
  /\ fixes.queue = <<>>
  /\ fixes' = [fixes EXCEPT !.pc = "done"]
  /\ UNCHANGED <<fs, fileCache, lastCall, stale, cleared, edits,
                 opt, stat, srch>>
  /\ UNCHANGED cmdVars
  /\ UNCHANGED matchVars
  /\ UNCHANGED extVars

NextFix == CompareFix \/ FixFile \/ FixReturn

InitFix == InitWith(ComponentFile, OtherContent)

SpecFix == InitFix /\ [][NextFix]_vars

(***************************************************************************)
(* compareVars: the threshold it reads from its options, and the match and *)
(* the status it gives to one occurrence.  Distances and the threshold are *)
(* in tenths of a Delta-E unit.                                            *)
(***************************************************************************)
DecimalDigits == <<"0", "1", "2", "3", "4", "5", "6", "7", "8", "9">>

IsDecimalDigit(ch) == \E d \in 1..Len(DecimalDigits) : DecimalDigits[d] = ch

DecimalValue(ch) == (CHOOSE d \in 1..Len(DecimalDigits) : DecimalDigits[d] = ch) - 1

\* the number the leading digits of a string spell, after the digits so far
RECURSIVE LeadingNumber(_, _)
LeadingNumber(str, sofar) ==
  IF str = <<>> \/ ~IsDecimalDigit(Head(str)) THEN sofar
  ELSE LeadingNumber(Tail(str), Len(DecimalDigits) * sofar + DecimalValue(Head(str)))

\* parseFloat of a string without sign, point or exponent, in tenths
parseFloat(str) ==
  IF str = <<>> \/ ~IsDecimalDigit(Head(str)) THEN NaN
  ELSE Len(DecimalDigits) * LeadingNumber(str, 0)

\* the default of --threshold in the command's declaration: '10'
DefaultThreshold == <<"1", "0">>

\* what the user can write after --threshold
ThresholdTexts == {<<"0">>, <<"5">>, <<"2", "0">>}

\* parseFloat(options.threshold) || 10
thresholdOf(options) ==
  LET parsed == parseFloat(options.threshold)
  IN  IF parsed = NaN \/ parsed = 0 THEN parseFloat(DefaultThreshold) ELSE parsed

\* the colours of the variables file and of the occurrences
StatusPaletteValues ==
  { Colour("rgb", n) : n \in {0, 3, 50, 120} } \cup {Colour("bad", 0)}

StatusColours == {Colour("rgb", 0), Colour("nan", 0), Colour("bad", 0)}

\* the palettes: up to MaxPalette variables of different names
StatusPalettes ==
  UNION {{p \in [1..n -> [name : VarNames, value : StatusPaletteValues]] :
            \A i, j \in 1..n : i # j => p[i].name # p[j].name}
         : n \in 1..MaxPalette}

\* normalizeToHex is null exactly when parseColor is
HasHex(value) == parseColor(value) # Null

\* Math.round(dist * 100) / 100 of a distance in tenths
roundedDist(dist) ==
  IF dist = NaN \/ dist = Infinity THEN dist
  ELSE (dist * Len(DecimalDigits)) \div Len(DecimalDigits)

\* nearest: null (idx 0) without a hex, the semantic match otherwise
nearestOf(value, pal, cssProp) ==
  LET match == findNearestColorSemantic(value, pal, cssProp)
  IN  IF ~HasHex(value) \/ match.idx = 0 THEN NoMatch
      ELSE [idx |-> match.idx, distance |-> roundedDist(match.distance)]

statusOf(nearest, threshold) ==
  IF nearest.idx # 0 /\ nearest.distance = 0 THEN "exact"
  ELSE IF nearest.idx # 0 /\ LessEq(nearest.distance, threshold) THEN "close"
  ELSE "unmatched"

\* compareVars reads the variables file and the threshold
ReadThreshold ==
  /\ stat.pc = "start"
  /\ \E pal \in StatusPalettes, supplied \in BOOLEAN, text \in ThresholdTexts :
       LET options == [threshold |-> IF supplied THEN text ELSE DefaultThreshold]
       IN  stat' = [stat EXCEPT
                      !.pc = "scanning",
                      !.palette = pal,
                      !.supplied = supplied,
                      !.options = options,
                      !.threshold = thresholdOf(options)]
  /\ UNCHANGED <<fs, fileCache, lastCall, stale, cleared, edits,
                 opt, fixes, srch>>
  /\ UNCHANGED cmdVars
  /\ UNCHANGED matchVars
  /\ UNCHANGED extVars

\* one turn of the loop over the raw results: the match and the status
CompareOccurrence ==
  /\ stat.pc = "scanning"
  /\ \E value \in StatusColours, cssProp \in CssProps \cup {NoProp} :
       LET nearest == nearestOf(value, stat.palette, cssProp)
       IN  stat' = [stat EXCEPT
                      !.pc = "compared",
                      !.value = value,
                      !.cssProp = cssProp,
                      !.nearest = nearest,
                      !.plain = findNearestColor(value, stat.palette),
                      !.status = statusOf(nearest, stat.threshold)]
  /\ UNCHANGED <<fs, fileCache, lastCall, stale, cleared, edits,
                 opt, fixes, srch>>
  /\ UNCHANGED cmdVars
  /\ UNCHANGED matchVars
  /\ UNCHANGED extVars

NextStatus == ReadThreshold \/ CompareOccurrence

InitStatus == InitWith(ComponentFile, OtherContent)

SpecStatus == InitStatus /\ [][NextStatus]_vars

(***************************************************************************)
(* findPatterns, step 1: the searches of findClassAttributes and           *)
(* findClassNameFunctions over the lines of a source file.  A line holds   *)
(* one class attribute or one call of cn, clsx, twMerge or cva; no line    *)
(* is a comment.                                                           *)
(***************************************************************************)
\* the class strings written in the source
SourceStrings ==
  { <<"flex", " ", "gap-2">>,
    <<" ", "gap-2", " ", "flex">>,
    <<"flex">> }

\* an argument of a call: a quoted string, or an identifier
Quoted(text) == [quoted |-> TRUE, text |-> text]

Identifier == [quoted |-> FALSE, text |-> <<>>]

CallArguments == {Quoted(s) : s \in SourceStrings} \cup {Identifier}

\* the lines of the source: className="..." and class='...', and the calls
\* of one or two arguments
SourceLines ==
  [kind : {"attribute"}, name : {"className", "class"}, quote : {"\"", "'"},
   text : SourceStrings \ {<<"flex">>}, args : {<<>>}]
    \cup [kind : {"call"}, name : {"cn"}, quote : {"\""}, text : {<<>>},
          args : UNION {[1..n -> CallArguments] : n \in 1..2}]

ClassSources == UNION {[1..n -> SourceLines] : n \in 1..MaxSourceLines}

\* the four patterns of findClassAttributes, in order
AttributePatterns ==
  << [name |-> "className", quote |-> "\""],
     [name |-> "className", quote |-> "'"],
     [name |-> "class", quote |-> "\""],
     [name |-> "class", quote |-> "'"] >>

\* String.prototype.trim on a class string
RECURSIVE TrimClassStart(_)
TrimClassStart(str) ==
  IF str # <<>> /\ Head(str) \in Whitespace THEN TrimClassStart(Tail(str))
  ELSE str

RECURSIVE TrimClassEnd(_)
TrimClassEnd(str) ==
  IF str # <<>> /\ str[Len(str)] \in Whitespace
    THEN TrimClassEnd(SubSeq(str, 1, Len(str) - 1))
  ELSE str

TrimClass(str) == TrimClassEnd(TrimClassStart(str))

\* the results of one attribute pattern over the lines from line n on
RECURSIVE AttributeResults(_, _, _)
AttributeResults(source, pattern, n) ==
  IF n > Len(source) THEN <<>>
  ELSE
    LET l == source[n]
        matches == l.kind = "attribute" /\ l.name = pattern.name
                     /\ l.quote = pattern.quote
        classString == TrimClass(l.text)
        rest == AttributeResults(source, pattern, n + 1)
    IN  IF matches /\ classString # <<>>
          THEN <<[line |-> n, arg |-> 0, classString |-> classString]>> \o rest
          ELSE rest

RECURSIVE findClassAttributesFrom(_, _)
findClassAttributesFrom(source, p) ==
  IF p > Len(AttributePatterns) THEN <<>>
  ELSE AttributeResults(source, AttributePatterns[p], 1)
         \o findClassAttributesFrom(source, p + 1)

findClassAttributes(source) == findClassAttributesFrom(source, 1)

\* the arguments inside the match of a function pattern: the first pattern
\* ends at the closing quote of a first argument that is a string, the
\* second at the closing quote of the last non-empty string
FirstPatternArgs(l) ==
  IF l.kind = "call" /\ l.args[1].quoted THEN {1} ELSE {}

SecondPatternArgs(l) ==
  IF l.kind = "call"
    THEN {k \in 1..Len(l.args) : l.args[k].quoted /\ l.args[k].text # <<>>}
    ELSE {}

fnPatterns == <<"first", "second">>

PatternArgs(l, pattern) ==
  IF pattern = "first" THEN FirstPatternArgs(l) ELSE SecondPatternArgs(l)

\* the token has a dash
HasDash(tok) == tok = "gap-2"

\* the test of the string arguments: not empty, with a dash or a space
LooksLikeClasses(classString) ==
  /\ classString # <<>>
  /\ \E k \in 1..Len(classString) :
       HasDash(classString[k]) \/ classString[k] \in Whitespace

\* the results pushed for the arguments from k on of the match on line n
RECURSIVE ArgumentResults(_, _, _, _)
ArgumentResults(l, n, inMatch, k) ==
  IF k > Len(l.args) THEN <<>>
  ELSE
    LET classString == TrimClass(l.args[k].text)
        rest == ArgumentResults(l, n, inMatch, k + 1)
    IN  IF k \in inMatch /\ l.args[k].text # <<>>
             /\ LooksLikeClasses(classString)
          THEN <<[line |-> n, arg |-> k, classString |-> classString]>> \o rest
          ELSE rest

RECURSIVE FunctionResults(_, _, _)
FunctionResults(source, pattern, n) ==
  IF n > Len(source) THEN <<>>
  ELSE
    LET inMatch == PatternArgs(source[n], pattern)
    IN  (IF inMatch = {} THEN <<>>
         ELSE ArgumentResults(source[n], n, inMatch, 1))
          \o FunctionResults(source, pattern, n + 1)

RECURSIVE findClassNameFunctionsFrom(_, _)
findClassNameFunctionsFrom(source, p) ==
  IF p > Len(fnPatterns) THEN <<>>
  ELSE FunctionResults(source, fnPatterns[p], 1)
         \o findClassNameFunctionsFrom(source, p + 1)

findClassNameFunctions(source) == findClassNameFunctionsFrom(source, 1)

\* allResults = [...classResults, ...fnResults]
allResultsOf(source) ==
  findClassAttributes(source) \o findClassNameFunctions(source)

\* step 1 of findPatterns over a source
PatternsSearchSource ==
  /\ pat.pc = "start"
  /\ \E source \in ClassSources :
       LET results == allResultsOf(source)
       IN  pat' = [pat EXCEPT
                     !.pc = "found",
                     !.source = source,
                     !.hits = results,
                     !.allResults =
                        [k \in 1..Len(results) |-> results[k].classString]]
  /\ UNCHANGED <<fs, fileCache, lastCall, stale, cleared, edits, cmp, col>>
  /\ UNCHANGED moreVars
  /\ UNCHANGED cmdVars
  /\ UNCHANGED matchVars

NextClassSearch == PatternsSearchSource \/ PatternsGroup \/ PatternsReport

InitClassSearch == InitWith(ComponentFile, OtherContent)

SpecClassSearch == InitClassSearch /\ [][NextClassSearch]_vars

(***************************************************************************)
(* search: ripgrep when it is installed, grep otherwise, and the loop of   *)
(* the colors and compare commands over the raw results.  The files are    *)
(* those of compare --fix above; none of their lines is a comment.         *)
(***************************************************************************)
\* the records parseRipgrepJson builds: one for every submatch of a line
RECURSIVE RipgrepLine(_, _, _, _)
RipgrepLine(f, n, l, i) ==
  IF i > Len(l.items) THEN <<>>
  ELSE <<RawResult(f, n, l, i)>> \o RipgrepLine(f, n, l, i + 1)

RECURSIVE RipgrepFile(_, _, _)
RipgrepFile(f, lines, n) ==
  IF n > Len(lines) THEN <<>>
  ELSE RipgrepLine(f, n, lines[n], 1) \o RipgrepFile(f, lines, n + 1)

searchWithRipgrep(source) ==
  RipgrepFile(1, source[1], 1) \o RipgrepFile(2, source[2], 1)

\* the records parseGrepOutput builds: one for every line grep prints, a
\* line that holds a match, with column 1 and the empty match
RECURSIVE GrepFile(_, _, _)
GrepFile(f, lines, n) ==
  IF n > Len(lines) THEN <<>>
  ELSE (IF lines[n].items = <<>> THEN <<>>
        ELSE <<[file |-> f, line |-> n, column |-> 1, match |-> <<>>,
                tag |-> lines[n].tag]>>)
         \o GrepFile(f, lines, n + 1)

searchWithGrep(source) == GrepFile(1, source[1], 1) \o GrepFile(2, source[2], 1)

search(hasRipgrep, source) ==
  IF hasRipgrep THEN searchWithRipgrep(source) ELSE searchWithGrep(source)

\* String.prototype.startsWith
StartsWith(str, prefix) ==
  Len(str) >= Len(prefix) /\ SubSeq(str, 1, Len(prefix)) = prefix

\* String.prototype.trim of a match
RECURSIVE TrimSpaces(_)
TrimSpaces(str) ==
  IF str # <<>> /\ Head(str) = " " THEN TrimSpaces(Tail(str))
  ELSE IF str # <<>> /\ str[Len(str)] = " "
    THEN TrimSpaces(SubSeq(str, 1, Len(str) - 1))
  ELSE str

\* classifyColor, for the hex and rgb syntaxes; the empty string is no
\* functional syntax and no named colour
classifyColor(str) ==
  IF StartsWith(str, <<"#">>) THEN "hex"
  ELSE IF StartsWith(str, <<"r", "g", "b", "a">>) THEN "rgba"
  ELSE IF StartsWith(str, <<"r", "g", "b">>) THEN "rgb"
  ELSE "unknown"

\* the loop over rawResults: the matches that are colours
RECURSIVE ColourResults(_)
ColourResults(rawResults) ==
  IF rawResults = <<>> THEN <<>>
  ELSE
    LET result == Head(rawResults)
        value == TrimSpaces(result.match)
        rest == ColourResults(Tail(rawResults))
    IN  IF classifyColor(value) = "unknown" THEN rest
        ELSE <<[file |-> result.file, line |-> result.line,
                column |-> result.column, value |-> value]>> \o rest

\* the deduplication by file:line:column
RECURSIVE DedupePositions(_, _)
DedupePositions(results, seen) ==
  IF results = <<>> THEN <<>>
  ELSE LET r == Head(results)
           key == <<r.file, r.line, r.column>>
       IN  IF key \in seen THEN DedupePositions(Tail(results), seen)
           ELSE <<r>> \o DedupePositions(Tail(results), seen \cup {key})

\* the occurrences a command reports for raw results
ReportedOf(rawResults) == DedupePositions(ColourResults(rawResults), {})

\* search(colorPattern, paths, ...)
SearchColors ==
  /\ srch.pc = "start"
  /\ \E hasRipgrep \in BOOLEAN, source \in FixSources :
       srch' = [srch EXCEPT
                  !.pc = "searched",
                  !.hasRipgrep = hasRipgrep,
                  !.source = source,
                  !.rawResults = search(hasRipgrep, source)]
  /\ UNCHANGED <<fs, fileCache, lastCall, stale, cleared, edits,
                 opt, fixes, stat>>
  /\ UNCHANGED cmdVars
  /\ UNCHANGED matchVars
  /\ UNCHANGED extVars

\* the loop of the command over the raw results, and the deduplication
ReportColors ==
  /\ srch.pc = "searched"
  /\ srch' = [srch EXCEPT
                !.pc = "done",
                !.reported = ReportedOf(srch.rawResults)]
  /\ UNCHANGED <<fs, fileCache, lastCall, stale, cleared, edits,
                 opt, fixes, stat>>
  /\ UNCHANGED cmdVars
  /\ UNCHANGED matchVars
  /\ UNCHANGED extVars

NextSearch == SearchColors \/ ReportColors

InitSearch == InitWith(ComponentFile, OtherContent)

SpecSearch == InitSearch /\ [][NextSearch]_vars

(***************************************************************************)
(* ------------------------------- claims -------------------------------  *)
(***************************************************************************)
\* the path and the content on disk of the file of the last call
LastPath == Paths[lastCall.file]

LastContent == Contents[fs[lastCall.file]]

\* the text is a custom-property declaration: optional indentation, the
\* name, optional white space, a colon
IsDeclaration(text) ==
  \E k \in 1..Len(text) :
    /\ \A j \in 1..(k - 1) : text[j] = "ws"
    /\ text[k] = "--x"
    /\ \E m \in (k + 1)..Len(text) :
         /\ text[m] = ":"
         /\ \A j \in (k + 1)..(m - 1) : text[j] = "ws"

\* C1: a call on a file that was not rewritten since it was probed returns
\* the tag that the path, the content on disk and the line text determine,
\* whatever calls of classifyContext and clearCache came before it; so two
\* calls for the same occurrence agree, with or without a clearCache between
C1_PureOfPathContentText ==
  (lastCall.tag # "none" /\ ~lastCall.stale)
    => lastCall.tag = ContextTag(lastCall.textId, AnalyzeFile(LastPath, LastContent))

\* a call that probes the file again after clearCache dropped a record, and
\* one that is served from the cache after a clearCache
C1_Witness ==
  /\ cleared
  /\ lastCall.hit
  /\ ~lastCall.stale
  /\ lastCall.file # OtherFile
  /\ lastCall.tag = "theme-definition"

\* C3: a declaration line is tagged css-definition in every file
C3_DeclarationIsCssDefinition ==
  (lastCall.tag # "none" /\ IsDeclaration(LineText[lastCall.textId]))
    => lastCall.tag = "css-definition"

\* an indented declaration in a file whose cached record says canvas consumer
C3_Witness ==
  /\ lastCall.tag = "css-definition"
  /\ Head(LineText[lastCall.textId]) = "ws"
  /\ fileCache[lastCall.file].has
  /\ fileCache[lastCall.file].info.isCanvasConsumer
  /\ fileCache[lastCall.file].info.isDefinitionFile

\* C4: for a line that is no declaration the flags of the record decide in
\* the order canvas consumer, css-variable usage outside a stylesheet, theme
\* builder, definition file, mapping file; the first flag that is set fixes
\* the tag, whatever the line-level rules would say
C4_FileRulesInOrder ==
  (lastCall.tag # "none" /\ ~IsDeclaration(LineText[lastCall.textId])) =>
    LET info == lastCall.info
        text == LineText[lastCall.textId]
        hasVar == \E i \in 1..Len(text) : text[i] = "var(--"
        bridge == info.hasCssVarUsage /\ ~info.isCssFile
    IN  /\ info.isCanvasConsumer => lastCall.tag = "canvas"
        /\ (~info.isCanvasConsumer /\ bridge) => lastCall.tag = "canvas"
        /\ (~info.isCanvasConsumer /\ ~bridge /\ info.isThemeBuilder)
             => lastCall.tag = "theme-definition"
        /\ (~info.isCanvasConsumer /\ ~bridge /\ ~info.isThemeBuilder
              /\ info.isDefinitionFile)
             => lastCall.tag = (IF hasVar THEN "actionable" ELSE "theme-definition")
        /\ (~info.isCanvasConsumer /\ ~bridge /\ ~info.isThemeBuilder
              /\ ~info.isDefinitionFile /\ info.isMappingFile)
             => lastCall.tag = "mapping"

\* css-variable usage wins over theme builder, on a line the line-level
\* rules would tag meta
C4_Witness ==
  /\ lastCall.used
  /\ lastCall.info.isThemeBuilder
  /\ lastCall.info.hasCssVarUsage
  /\ ~lastCall.info.isCssFile
  /\ ~lastCall.info.isCanvasConsumer
  /\ lastCall.tag = "canvas"
  /\ LineTagOf[lastCall.textId] = "meta"

\* C5, as claimed: in every file that is no stylesheet and holds getCssVar
\* the record has hasCssVarUsage and a line that is no declaration is tagged
\* canvas; every file that holds a theme builder call has isThemeBuilder
C5_ContentFlagsInEveryFile ==
  (lastCall.used /\ ~lastCall.stale) =>
    /\ ("getCssVar" \in AllKinds(LastContent) /\ ExtName(LastPath) \notin StylesheetExtensions)
         => (lastCall.info.hasCssVarUsage /\ lastCall.tag = "canvas")
    /\ "createTheme" \in AllKinds(LastContent) => lastCall.info.isThemeBuilder

\* C5, amended: the same for the files with a JS/TS extension, the only ones
\* whose content is read; the record of any other file has no content flag
C5_ContentFlagsInScriptFiles ==
  (lastCall.used /\ ~lastCall.stale) =>
    IF ExtName(LastPath) \in {"js", "jsx", "ts", "tsx", "mjs", "cjs"}
      THEN /\ "getCssVar" \in AllKinds(LastContent)
                => (lastCall.info.hasCssVarUsage /\ lastCall.tag = "canvas")
           /\ "createTheme" \in AllKinds(LastContent) => lastCall.info.isThemeBuilder
      ELSE /\ ~lastCall.info.hasCssVarUsage
           /\ ~lastCall.info.isThemeBuilder
           /\ ~lastCall.info.isCanvasConsumer

\* a script file whose getCssVar call lies beyond the first hundred lines,
\* on a line the line-level rules would tag actionable
C5_Witness ==
  /\ lastCall.used
  /\ ~lastCall.stale
  /\ ExtName(LastPath) = "tsx"
  /\ "getCssVar" \in AllKinds(LastContent)
  /\ "getCssVar" \notin HeadKinds(LastContent)
  /\ lastCall.tag = "canvas"
  /\ LineTagOf[lastCall.textId] = "actionable"

\* C6, as claimed: for a file that cannot be read the call returns a tag, the
\* record has every flag false and the line-level rules decide the tag
C6_MissingFileAllFalse ==
  (lastCall.used /\ ~lastCall.stale /\ LastContent = Missing) =>
    /\ lastCall.tag \in Tags
    /\ lastCall.info = DefaultInfo
    /\ lastCall.tag = LineTagOf[lastCall.textId]

\* C6, amended: for a file that cannot be read the call returns a tag, the
\* flags read from the content are false and the flags read from the path
\* are what the path says; the line-level rules decide when the path sets
\* neither isDefinitionFile nor isMappingFile
C6_MissingFileContentFlagsFalse ==
  (lastCall.used /\ ~lastCall.stale /\ LastContent = Missing) =>
    /\ lastCall.tag \in Tags
    /\ ~lastCall.info.isCanvasConsumer
    /\ ~lastCall.info.isThemeBuilder
    /\ ~lastCall.info.hasCssVarUsage
    /\ lastCall.info.isCssFile = (ExtName(LastPath) \in {"css", "scss", "sass", "less"})
    /\ lastCall.info.isDefinitionFile = MatchesDefinitionPattern(LastPath)
    /\ lastCall.info.isMappingFile = MatchesMappingPattern(LastPath)
    /\ (~lastCall.info.isDefinitionFile /\ ~lastCall.info.isMappingFile)
         => lastCall.tag = LineTagOf[lastCall.textId]

\* src/colors.ts cannot be read: its record still says definition file
C6_Witness ==
  /\ lastCall.used
  /\ ~lastCall.stale
  /\ LastContent = Missing
  /\ ExtName(LastPath) = "ts"
  /\ lastCall.info.isDefinitionFile
  /\ lastCall.tag = "theme-definition"

\* C7, as claimed: black or white with an alpha channel, on an ordinary line
\* of an ordinary component file, is tagged effect, effect is one of the
\* tags and its label is EFFECT (black/white alpha)
C7_EffectTag ==
  (/\ lastCall.used
   /\ ~lastCall.stale
   /\ lastCall.match \in {"rgbaBlack", "rgbaWhite"}
   /\ lastCall.file = ComponentFile
   /\ LastContent = <<Run("plain", 3)>>)
    => /\ lastCall.tag = "effect"
       /\ "effect" \in Tags
       /\ contextLabel("effect") = "EFFECT (black/white alpha)"

\* C2, as claimed: every step that starts a command invocation leaves the
\* cache empty
C2_ClearedAtEveryStart ==
  [][inv' = inv + 1 => \A f \in DOMAIN fs : ~fileCache'[f].has]_vars

\* C2, amended: a record that a classification uses, and every record the
\* cache holds while a scanning command runs, was computed during the
\* current invocation
C2_NoRecordFromEarlierInvocation ==
  /\ lastCall.used => lastCall.recInv = lastCall.inv
  /\ pc \in {"colors", "compare"}
       => \A f \in DOMAIN fs : fileCache[f].has => recInv[f] = inv

\* a later invocation is served from the cache, after its start dropped the
\* records of an earlier one
C2_Witness ==
  /\ cleared
  /\ lastCall.hit
  /\ lastCall.inv > 1
  /\ pc = "compare"

\* the distance of palette entry i to the colour asked about
DistTo(i) == AbsDiff(found.colour.at, palette[i].value.at)

\* the entries whose value is a colour
ParseableEntries == { i \in 1..Len(palette) : palette[i].value.kind = "rgb" }

\* C8: findNearestColor returns null exactly when the input is no colour or
\* no entry is one; otherwise an entry at the least distance, the first of
\* those in palette order
C8_NearestFirstSeen ==
  found.fn = "plain" =>
    IF found.colour.kind # "rgb" \/ ParseableEntries = {}
      THEN found.idx = 0
      ELSE /\ found.idx \in ParseableEntries
           /\ found.distance = DistTo(found.idx)
           /\ \A i \in ParseableEntries : DistTo(found.idx) <= DistTo(i)
           /\ \A i \in ParseableEntries :
                DistTo(i) = DistTo(found.idx) => found.idx <= i

\* two different colours at the same least distance, after an entry that is
\* no colour: the first of the two is returned
C8_Witness ==
  /\ found.fn = "plain"
  /\ found.idx > 1
  /\ palette[1].value.kind # "rgb"
  /\ \E i \in ParseableEntries :
       /\ i > found.idx
       /\ DistTo(i) = DistTo(found.idx)
       /\ palette[i].value # palette[found.idx].value

\* C9, as claimed: findNearestColorSemantic never returns an entry when the
\* palette holds one that is nearer by more than the tie window
C9_TieWindowMonotone ==
  (found.fn = "semantic" /\ found.idx # 0) =>
    \A i \in ParseableEntries :
      ~(DistTo(i) < DistTo(found.idx) /\ DistTo(found.idx) - DistTo(i) > 5)

\* the name is a --border-* variable, a --bg-* variable
IsBorderVar(name) == name[1] = "border"

IsBgVar(name) == name[1] = "bg"

\* C10, as claimed: for a border-color occurrence an entry with a border
\* name is preferred among the entries at the distance of the returned one,
\* and of a --bg-* and a --border-* variable of one colour the --border-* one
\* is returned in either order
C10_BorderPreferred ==
  (/\ found.fn = "semantic"
   /\ found.idx # 0
   /\ found.prop \in {<<"border", "-", "color">>, <<"border", "Color">>})
    => /\ (\E i \in ParseableEntries :
             DistTo(i) = DistTo(found.idx) /\ IsBorderVar(palette[i].name))
            => IsBorderVar(palette[found.idx].name)
       /\ (/\ Len(palette) = 2
           /\ palette[1].value = palette[2].value
           /\ \E i, j \in 1..2 : IsBorderVar(palette[i].name) /\ IsBgVar(palette[j].name))
            => IsBorderVar(palette[found.idx].name)

(***************************************************************************)
(* C11: when the variables file is missing or its palette has no valid     *)
(* entry (no entry that is a colour), compareVars ends with exit code 1    *)
(* and has done nothing else: no search, no classification, no baseline,   *)
(* no fix, no output.                                                      *)
(***************************************************************************)
C11_RefusesWithoutValidEntry ==
  (cmp.pc # "start" /\ cmp.varsGiven /\ ~(cmp.varsExists /\ cmp.varsValid))
    => (cmp.pc = "done" /\ cmp.exit = 1 /\ cmp.effects = {})

\* the order of localeCompare on the files of the project
FileRank(file) == IF file = <<"a", ".css">> THEN 1 ELSE 2

\* r comes strictly before q in the order file, line, column
ComesBefore(r, q) ==
  \/ FileRank(r.file) < FileRank(q.file)
  \/ FileRank(r.file) = FileRank(q.file) /\ r.line < q.line
  \/ FileRank(r.file) = FileRank(q.file) /\ r.line = q.line /\ r.column < q.column

(***************************************************************************)
(* C12: the list compareVars reports is sorted by file, then line, then    *)
(* column, whatever the order in which the search delivered the results.   *)
(***************************************************************************)
C12_ReportedListSorted ==
  (cmp.pc = "done" /\ cmp.effects \cap {"print", "fix"} # {})
    => \A i, j \in 1..Len(cmp.final) :
         i < j => ~ComesBefore(cmp.final[j], cmp.final[i])

\* the baseline record b and the result r have the same file, value and hex
SameTriple(b, r) == b.file = r.file /\ b.value = r.value /\ b.hex = r.hex

\* the records of the baseline file of the last difference
BaselineRecords == { cmp.diffFile.items[i] : i \in 1..Len(cmp.diffFile.items) }

(***************************************************************************)
(* C13: against a saved baseline, diffAgainstBaseline returns the current  *)
(* results, in their order, without exactly those for which some baseline  *)
(* record has the same file, value and hex; line and column play no part.  *)
(***************************************************************************)
C13_DiffByFileValueHex ==
  (cmp.pc \in {"out", "done"} /\ cmp.diffed /\ cmp.diffFile.kind = "array")
    => cmp.final =
         SelectSeq(cmp.results,
                   LAMBDA r : ~(\E b \in BaselineRecords : SameTriple(b, r)))

\* a result is dropped for a baseline record of another line, and a result
\* of the same value in another file is kept
C13_Witness ==
  /\ cmp.pc = "out" /\ cmp.diffed /\ cmp.diffFile.kind = "array"
  /\ Len(cmp.results) = 2 /\ Len(cmp.final) = 1
  /\ cmp.results[1].value = cmp.results[2].value
  /\ \E b \in BaselineRecords :
       /\ SameTriple(b, cmp.results[1])
       /\ b.line # cmp.results[1].line

\* the baseline file is missing, is no JSON, or is JSON that is no array of
\* records
UnusableBaseline(file) ==
  file.kind \in {"missing", "garbage", "object", "numbers", "nulls"}

(***************************************************************************)
(* C14: when the file given to --diff is missing, is no JSON or is JSON of *)
(* the wrong structure, the difference is the full list of current         *)
(* results, and the command goes on to its fix or output step with exit    *)
(* code 0.                                                                 *)
(***************************************************************************)
C14_UnusableBaselineKeepsAll ==
  (cmp.diffed /\ UnusableBaseline(cmp.diffFile))
    => /\ cmp.pc \in {"out", "done"}
       /\ cmp.final = cmp.results
       /\ cmp.exit = 0
       /\ cmp.pc = "done" => cmp.effects \cap {"fix", "print"} # {}

C14_Witness ==
  /\ cmp.pc = "done" /\ cmp.diffed
  /\ cmp.diffFile.kind \in {"garbage", "object", "numbers", "nulls"}
  /\ Len(cmp.final) = 2
  /\ "print" \in cmp.effects

\* the set of classes of a class string
ClassSet(classString) == { classString[k] : k \in 1..Len(classString) } \ Whitespace

\* the group that holds the location of result i, 0 when the result was
\* skipped for having too few classes
GroupOf(i) ==
  LET holds(k) == \E l \in 1..Len(pat.patternMap[k].locations) :
                    pat.patternMap[k].locations[l].at = i
  IN  IF \E k \in 1..Len(pat.patternMap) : holds(k)
        THEN CHOOSE k \in 1..Len(pat.patternMap) : holds(k)
        ELSE 0

(***************************************************************************)
(* C15: two class strings are in the same pattern exactly when they have   *)
(* the same set of classes, whatever the order, the whitespace and the     *)
(* repeats; every location keeps the original string.                      *)
(***************************************************************************)
C15_SameSetSamePattern ==
  pat.pc \in {"grouped", "done"} =>
    /\ \A i, j \in 1..Len(pat.allResults) :
         (GroupOf(i) # 0 /\ GroupOf(j) # 0) =>
           ((GroupOf(i) = GroupOf(j))
              <=> (ClassSet(pat.allResults[i]) = ClassSet(pat.allResults[j])))
    /\ \A k \in 1..Len(pat.patternMap) :
         \A l \in 1..Len(pat.patternMap[k].locations) :
           pat.patternMap[k].locations[l].original
             = pat.allResults[pat.patternMap[k].locations[l].at]

\* the classes of result i, with their repeats
ClassList(i) == SelectSeq(pat.allResults[i], LAMBDA t : t \notin Whitespace)

\* results i and j hold the same classes the same number of times
SameGroup(i, j) ==
  LET ci == ClassList(i)
      cj == ClassList(j)
  IN  /\ Len(ci) = Len(cj)
      /\ \A cls \in ClassSet(ci) : Times(ci, cls) = Times(cj, cls)

\* the number of results in the group of result i
OccurrenceCount(i) == Cardinality({ j \in 1..Len(pat.allResults) : SameGroup(i, j) })

\* the group of result i meets both minimums
Retained(i) ==
  /\ Len(ClassList(i)) >= pat.minClasses
  /\ OccurrenceCount(i) >= pat.minCount

\* the reported pattern p is the group of result i
PatternOf(p, i) ==
  LET ci == ClassList(i)
  IN  /\ Len(p.classes) = Len(ci)
      /\ \A cls \in ClassSet(ci) : Times(p.classes, cls) = Times(ci, cls)

(***************************************************************************)
(* C16: the reported patterns are exactly the groups with at least         *)
(* minClasses classes and at least minCount occurrences, each once, with   *)
(* its occurrence count and class count, in descending order of            *)
(* occurrence count times class count.                                     *)
(***************************************************************************)
C16_ReportedPatternsRanked ==
  pat.pc = "done" =>
    /\ \A k \in 1..Len(pat.patterns) :
         \E i \in 1..Len(pat.allResults) :
           /\ Retained(i)
           /\ PatternOf(pat.patterns[k], i)
           /\ pat.patterns[k].count = OccurrenceCount(i)
           /\ pat.patterns[k].classCount = Len(ClassList(i))
    /\ \A i \in 1..Len(pat.allResults) :
         Retained(i) =>
           Cardinality({ k \in 1..Len(pat.patterns) : PatternOf(pat.patterns[k], i) }) = 1
    /\ \A k \in 1..(Len(pat.patterns) - 1) :
         pat.patterns[k].count * pat.patterns[k].classCount
           >= pat.patterns[k + 1].count * pat.patterns[k + 1].classCount

\* Scenario E: four occurrences of the three classes flex, items-center and
\* gap-2 in two variants, minCount 2 and minClasses 2: one pattern, count 4,
\* impact 12
C16_Witness ==
  /\ pat.pc = "done" /\ pat.minCount = 2 /\ pat.minClasses = 2
  /\ Len(pat.allResults) = 4
  /\ \A i \in 1..4 : ClassSet(pat.allResults[i]) = {"flex", "items-center", "gap-2"}
  /\ pat.allResults[1] # pat.allResults[2]
  /\ Len(pat.patterns) = 1
  /\ pat.patterns[1].count = 4
  /\ pat.patterns[1].count * pat.patterns[1].classCount = 12

RECURSIVE SumSeq(_)
SumSeq(numbers) ==
  IF numbers = <<>> THEN 0 ELSE Head(numbers) + SumSeq(Tail(numbers))

\* the number of times the classes x and y stand together in a class list:
\* every appearance of x with every appearance of y, and every two
\* appearances of x when y is x
PairTimes(classes, pair) ==
  IF pair[1] = pair[2]
    THEN (Times(classes, pair[1]) * (Times(classes, pair[1]) - 1)) \div 2
    ELSE Times(classes, pair[1]) * Times(classes, pair[2])

\* the co-occurrences of a pair, and the appearances of a class, over the
\* results whose index is in the set among
PairTotal(pair, among) ==
  SumSeq([i \in 1..Len(pat.allResults) |->
            IF i \in among THEN PairTimes(ClassList(i), pair) ELSE 0])

ClassTotal(cls, among) ==
  SumSeq([i \in 1..Len(pat.allResults) |->
            IF i \in among THEN Times(ClassList(i), cls) ELSE 0])

\* the classes of the results
PresentClasses == UNION { ClassSet(pat.allResults[i]) : i \in 1..Len(pat.allResults) }

\* the pairs of common classes with at least 2 * minCount co-occurrences
FrequentPairs(among) ==
  LET common == { cls \in PresentClasses : ClassTotal(cls, among) >= pat.minCount }
  IN  { pair \in common \X common :
          /\ Rank(pair[1]) <= Rank(pair[2])
          /\ PairTotal(pair, among) >= 2 * pat.minCount }

\* the reported pairs are the 20 most frequent of the frequent pairs counted
\* over the results of among, each once with its count, most frequent first
ReportsPairsOver(among) ==
  LET frequent == FrequentPairs(among)
      reported == { pat.subPatterns[k].pattern : k \in 1..Len(pat.subPatterns) }
  IN  /\ \A k \in 1..Len(pat.subPatterns) :
           /\ pat.subPatterns[k].pattern \in frequent
           /\ pat.subPatterns[k].count = PairTotal(pat.subPatterns[k].pattern, among)
      /\ Cardinality(reported) = Len(pat.subPatterns)
      /\ Len(pat.subPatterns)
           = IF Cardinality(frequent) < 20 THEN Cardinality(frequent) ELSE 20
      /\ \A k \in 1..(Len(pat.subPatterns) - 1) :
           pat.subPatterns[k].count >= pat.subPatterns[k + 1].count
      /\ \A pair \in frequent \ reported :
           PairTotal(pair, among) <= pat.subPatterns[Len(pat.subPatterns)].count

\* the results of the groups that meet both minimums
RetainedResults == { i \in 1..Len(pat.allResults) : Retained(i) }

\* the results with at least minClasses classes
GroupedResults == { i \in 1..Len(pat.allResults) : Len(ClassList(i)) >= pat.minClasses }

(***************************************************************************)
(* C17 as stated: the pairs of classes are counted over the groups that    *)
(* meet both minimums only; a pair of classes that each appear minCount    *)
(* times is reported exactly when it co-occurs 2 * minCount times, the 20  *)
(* most frequent pairs at most, most frequent first.                       *)
(***************************************************************************)
C17_PairsOverRetainedGroups ==
  pat.pc = "done" => ReportsPairsOver(RetainedResults)

(***************************************************************************)
(* C17 amended: the pairs are counted over every group with at least       *)
(* minClasses classes, whether or not the group has minCount occurrences.  *)
(***************************************************************************)
C17_PairsOverAllGroups ==
  pat.pc = "done" => ReportsPairsOver(GroupedResults)

\* a pair is reported that does not co-occur 2 * minCount times in the
\* groups that meet both minimums, with no class repeated in a string
C17_Witness ==
  /\ pat.pc = "done"
  /\ \A i \in 1..Len(pat.allResults) : Len(ClassList(i)) = Cardinality(ClassSet(pat.allResults[i]))
  /\ \E k \in 1..Len(pat.subPatterns) :
       PairTotal(pat.subPatterns[k].pattern, RetainedResults) < 2 * pat.minCount

(***************************************************************************)
(* C18: for every literal parseColor accepts, parsing the hex string that  *)
(* rgbToHex makes of the parsed triple gives the same triple.              *)
(***************************************************************************)
C18_RoundTrip ==
  col.pc = "reparsed" => col.again = col.rgb

\* c is a whole number from 0 to 255
IsByte(c) == c # NaN /\ c >= 0 /\ c <= 255

(***************************************************************************)
(* C19: every triple parseColor produces has whole r, g and b from 0 to    *)
(* 255, also for channels above 255, percentages above 100% and hsl        *)
(* saturation or lightness above 100%.                                     *)
(***************************************************************************)
C19_ChannelsAreBytes ==
  (col.pc = "parsed" /\ col.rgb # Null)
    => (IsByte(col.rgb.r) /\ IsByte(col.rgb.g) /\ IsByte(col.rgb.b))

\* the literal has an alpha channel: a fourth or eighth hex digit, or an
\* alpha argument
HasAlphaChannel(lit) ==
  \/ lit.syntax = "hex" /\ Len(lit.digits) \in {4, 8}
  \/ lit.syntax = "func" /\ lit.alpha.given

\* the alpha channel of the literal says fully opaque
IsOpaque(lit) ==
  \/ /\ lit.syntax = "hex" /\ Len(lit.digits) \in {4, 8}
     /\ lit.digits[Len(lit.digits)] = 15 /\ lit.digits[Len(lit.digits) - 1] = 15
  \/ /\ lit.syntax = "func" /\ lit.alpha.given
     /\ lit.alpha.n = (IF lit.alpha.pct THEN 10000 ELSE 100)

(***************************************************************************)
(* C20: extractAlpha returns null or an alpha strictly below 1; null for a *)
(* literal without alpha channel and for a fully opaque literal in every   *)
(* syntax; and for a fourth comma argument only rgba and hsla give an      *)
(* alpha, rgb and hsl give null.                                           *)
(***************************************************************************)
C20_AlphaBelowOne ==
  col.pc = "alpha" =>
    /\ col.alpha.null \/ (col.alpha.value # NaN /\ col.alpha.value < 100)
    /\ (~HasAlphaChannel(col.literal) \/ IsOpaque(col.literal)) => col.alpha.null
    /\ (/\ col.literal.syntax = "func" /\ col.literal.sep = "comma"
        /\ col.literal.name \in {"rgb", "hsl"}) => col.alpha.null

OptionNames == {"threshold", "minCount", "minClasses", "exclude", "include", "vars", "named"}

(***************************************************************************)
(* C21: for every option the user sets on the command line, mergeOptions   *)
(* returns the value of the command line whatever the config file holds;   *)
(* a config value is used only for an option the command line did not set. *)
(***************************************************************************)
C21_CommandLineOverridesConfig ==
  opt.pc = "merged" =>
    \A name \in OptionNames :
      opt.cli[name].has => opt.merged[name] = opt.cli[name]

\* the literals of a line that compare --fix has to replace
FixableItems(l) ==
  {i \in 1..Len(l.items) :
     l.tag = "actionable" /\ FixStatus(l.items[i]) = "exact"}

\* the text of a line once the literals of set S are replaced
Rendered(l, S) ==
  l.prefix \o JoinItems([i \in 1..Len(l.items) |->
                           IF i \in S THEN FixSuggestion(l.items[i])
                           ELSE l.items[i]])

\* the sets of literals of line l whose replacement gives the text
ReplacedSets(l, text) ==
  {S \in SUBSET FixableItems(l) : Rendered(l, S) = text}

FixLinesOf(f) == 1..Len(fixes.source[f])

\* the number of replacements made in the files on disk
ReplacementsMade ==
  LET made == [f \in 1..2 |->
                 [n \in FixLinesOf(f) |->
                    Cardinality(CHOOSE S \in ReplacedSets(fixes.source[f][n],
                                                          fixes.files[f][n]) :
                                  TRUE)]]
  IN  SumSeq([f \in 1..2 |-> SumSeq(made[f])])

\* C22: compare --fix writes only files that hold an actionable exact
\* occurrence, leaves the text of every other occurrence as it was, and
\* returns the number of replacements it made
C22_FixesOnlyActionableExact ==
  fixes.pc = "done" =>
    /\ \A f \in fixes.written :
         \E n \in FixLinesOf(f) : FixableItems(fixes.source[f][n]) # {}
    /\ \A f \in 1..2 : \A n \in FixLinesOf(f) :
         ReplacedSets(fixes.source[f][n], fixes.files[f][n]) # {}
    /\ (\A f \in 1..2 : \A n \in FixLinesOf(f) :
          ReplacedSets(fixes.source[f][n], fixes.files[f][n]) # {})
         => fixes.fixCount = ReplacementsMade

\* C26: in a file that compare --fix has written, every actionable exact
\* occurrence of every line is replaced once by its own suggestion, and the
\* rest of the line is as it was
C26_EachReplacedAtItsPosition ==
  fixes.pc = "done" =>
    \A f \in fixes.written : \A n \in FixLinesOf(f) :
      fixes.files[f][n]
        = Rendered(fixes.source[f][n], FixableItems(fixes.source[f][n]))

\* the threshold the user asked for: the text after --threshold, 10 without
UserThreshold ==
  IF stat.supplied THEN parseFloat(stat.options.threshold)
  ELSE parseFloat(DefaultThreshold)

\* C23: under the threshold t the user supplies (10 when none is supplied) an
\* occurrence is exact iff its nearest match is at distance 0, close iff the
\* distance is above 0 and at most t, and unmatched otherwise
C23_StatusByUserThreshold ==
  stat.pc = "compared" =>
    LET d == stat.nearest.distance
        matched == stat.nearest.idx # 0
        within == matched /\ Less(0, d) /\ LessEq(d, UserThreshold)
    IN  /\ stat.status = "exact" <=> (matched /\ d = 0)
        /\ stat.status = "close" <=> within
        /\ stat.status = "unmatched" <=> ~(matched /\ d = 0) /\ ~within

\* the palette holds an entry of the colour of the occurrence
HasIdenticalEntry ==
  /\ stat.value.kind = "rgb"
  /\ \E i \in 1..Len(stat.palette) :
       parseColor(stat.palette[i].value) = parseColor(stat.value)

\* C27: when the palette holds an entry of the occurrence's own colour, the
\* semantic matcher returns an entry at distance 0 and the status is exact,
\* and without a property it returns the entry findNearestColor returns
C27_IdenticalEntryIsExact ==
  (stat.pc = "compared" /\ HasIdenticalEntry) =>
    /\ stat.nearest.distance = 0
    /\ stat.status = "exact"
    /\ stat.cssProp = NoProp => stat.nearest.idx = stat.plain.idx

\* the line-level heuristics in the order of the claim, for the trimmed text
\* of line id: the tag each decides and whether it matches
Heuristics(id) ==
  LET trimmed == Trim(LineText[id])
  IN  << [tag |-> "meta",
          matches |-> MetaValueRe(trimmed) /\ MetaKeywordRe(trimmed)],
         [tag |-> "generated",
          matches |-> TemplateTagRe(trimmed) /\ InterpRe(trimmed)],
         [tag |-> "mapping",
          matches |-> QuotedPropKeyRe(trimmed)
                        /\ QuotedPairRe(LastColonSegment(trimmed))],
         [tag |-> "mapping", matches |-> HexKeyRe(trimmed)],
         [tag |-> "mapping", matches |-> CssKeyRe(trimmed)],
         [tag |-> "canvas", matches |-> CssVarCallRe(trimmed)],
         [tag |-> "canvas", matches |-> OrFallbackRe(trimmed)] >>

\* the heuristics that match line id
Matching(id) ==
  {k \in 1..Len(Heuristics(id)) : Heuristics(id)[k].matches}

FirstMatchTable ==
  [id \in LineIds |->
     IF Matching(id) = {} THEN "actionable"
     ELSE Heuristics(id)[CHOOSE k \in Matching(id) :
                           \A j \in Matching(id) : k <= j].tag]

\* no flag of the record of the file is set
NoFileFlag(info) ==
  /\ ~info.isCanvasConsumer
  /\ ~info.hasCssVarUsage
  /\ ~info.isThemeBuilder
  /\ ~info.isDefinitionFile
  /\ ~info.isMappingFile

C25_RecordComputedOnce ==
  [][/\ \A f \in DOMAIN fileCache :
          fileCache[f].has =>
            \/ fileCache'[f] = fileCache[f]
            \/ \A g \in DOMAIN fileCache : ~fileCache'[g].has
     /\ (lastCall'.used /\ fileCache[lastCall'.file].has) =>
          /\ lastCall'.hit
          /\ lastCall'.info = fileCache[lastCall'.file].info
     /\ (lastCall'.used /\ ~fileCache[lastCall'.file].has) =>
          fileCache'[lastCall'.file] = [has |-> TRUE, info |-> lastCall'.info]
    ]_vars

\* a call served from the record of a failed read, after the file has
\* become readable with a content that gives another record
C25_Witness ==
  /\ lastCall.hit
  /\ lastCall.stale
  /\ LastContent # Missing
  /\ lastCall.info = AnalyzeFile(LastPath, Missing)
  /\ lastCall.info # AnalyzeFile(LastPath, LastContent)

\* the class strings of the source: the attribute of a line, and each string
\* argument of a call that looks like classes, by line and argument
SourceOccurrences ==
  LET source == pat.source
  IN  {o \in [line : 1..Len(source), arg : 0..2] :
         LET l == source[o.line]
         IN  IF l.kind = "attribute" THEN o.arg = 0 /\ TrimClass(l.text) # <<>>
             ELSE /\ o.arg \in 1..Len(l.args)
                  /\ l.args[o.arg].quoted
                  /\ LooksLikeClasses(TrimClass(l.args[o.arg].text))}

SourceText(o) ==
  LET l == pat.source[o.line]
  IN  IF o.arg = 0 THEN l.text ELSE l.args[o.arg].text

\* the occurrences of the source that belong to the pattern of an entry
OccurrencesOf(entry) ==
  {o \in SourceOccurrences :
     Normalize(extractClassList(SourceText(o))) = entry.normalized}

\* the places of the source the locations of an entry point to
PlacesOf(entry) ==
  {[line |-> pat.hits[entry.locations[k].at].line,
    arg |-> pat.hits[entry.locations[k].at].arg] :
     k \in 1..Len(entry.locations)}

\* C28: the count of every pattern is the number of its recorded locations
\* and the number of the distinct occurrences of the source that have it
C28_CountIsOccurrences ==
  (pat.pc = "grouped" /\ pat.source # <<>>) =>
    \A k \in 1..Len(pat.patternMap) :
      LET entry == pat.patternMap[k]
      IN  /\ entry.count = Len(entry.locations)
          /\ entry.count = Cardinality(PlacesOf(entry))
          /\ entry.count = Cardinality(OccurrencesOf(entry))

\* the baseline file that saveBaseline writes for the results of the run
SavedBaseline == BaselineFile("array", saveBaseline(cmp.results))

\* C29: the difference of a result set against the baseline saved from that
\* same result set holds no result, also when a result has no hex
C29_BaselineRoundTrip ==
  (cmp.pc \in {"out", "done"} /\ cmp.diffed /\ cmp.diffFile = SavedBaseline) =>
    cmp.final = <<>>

\* a result without hex among the results of a run that is compared with
\* the baseline saved from them
C29_Witness ==
  /\ cmp.pc = "done"
  /\ cmp.diffed
  /\ cmp.diffFile = SavedBaseline
  /\ \E i \in 1..Len(cmp.results) : cmp.results[i].hex = NullHex
  /\ \E i \in 1..Len(cmp.results) : cmp.results[i].hex # NullHex
  /\ cmp.final = <<>>

\* C30: every occurrence the command reports for the files with ripgrep is
\* among those it reports for the same files with grep
C30_GrepReportsWhatRipgrepReports ==
  (srch.pc = "done" /\ ~srch.hasRipgrep) =>
    LET viaRipgrep == ReportedOf(searchWithRipgrep(srch.source))
    IN  \A k \in 1..Len(viaRipgrep) :
          \E j \in 1..Len(srch.reported) :
            /\ srch.reported[j].file = viaRipgrep[k].file
            /\ srch.reported[j].line = viaRipgrep[k].line
            /\ srch.reported[j].value = viaRipgrep[k].value

====
